---- MODULE Spec2Model ----
(***************************************************************************)
(* Model of the taiko hive test harness: the funding Vault, the RunTests   *)
(* scheduler with its TestEnv, the blocking wait helpers and the Devnet.   *)
(*                                                                         *)
(* Five specifications share one set of variables:                         *)
(*   VaultSpec  - concurrent Vault.CreateAccount calls on one Vault        *)
(*   SchedSpec  - one RunTests call, its per-test goroutines and semaphore *)
(*   WaitSpec   - concurrent calls of the wait helpers                     *)
(*   DevnetSpec - concurrent Add and Get operations on one Devnet          *)
(*   AdaptSpec  - runAllTests of the rpc simulator adapting its test list  *)
(* Each leaves the variables of the other components untouched.            *)
(***************************************************************************)
EXTENDS Integers, Sequences, FiniteSets, TLC

(***************************************************************************)
(* Bounds of the model                                                     *)
(***************************************************************************)
NumCallers == 2
MaxTests == 2
MaxConc == 4
MaxCtx == 2
MaxHeight == 2
NumDevCallers == 2

(***************************************************************************)
(* Program constants                                                       *)
(***************************************************************************)
PollBudget == 60

VARIABLES
    \* ---- Vault (one instance) ----
    v_mu,        \* Vault.mu: 0 when free, else the caller holding it
    v_nonce,     \* Vault.nonce
    v_accounts,  \* Vault.accounts: address -> key, 0 for no entry
    v_pc,        \* position of each caller inside CreateAccount
    v_local,     \* nextNonce's local `nonce` of each caller
    v_tx,        \* nonce of the funding tx a caller built, -1 before
    v_polls,     \* receipt polls a caller has made
    v_ans,       \* the last answer of client.TransactionReceipt to a caller:
                 \* [hash: nonce of the tx asked about, ans], ans "none" before
    v_built,     \* funding txs built so far (their nonces, in build order)
    v_sent,      \* broadcast attempts so far: [nonce, ok]
    v_op,        \* the method of the Vault each caller calls, "none" before
    v_arg,       \* its argument: InsertKey's key, the address of FindKey and
                 \* SignTransaction; 0 when it has none
    v_had,       \* the address was in Vault.accounts when FindKey began (history)
    v_found,     \* what FindKey returned: a key, 0 for nil, -1 before
    v_out        \* what SignTransaction returned: <<key that signed, error>>

\* the state of the calls that look up or insert keys
keyVars == <<v_op, v_arg, v_had, v_found, v_out>>

vaultVars == <<v_mu, v_nonce, v_accounts, v_pc, v_local, v_tx, v_polls, v_ans, v_built,
               v_sent,
               keyVars>>

VARIABLES
    \* ---- RunTests ----
    r_n,         \* len(params.Tests)
    r_conc,      \* params.Concurrency
    r_ctx,       \* the parent ctx is done (cancelled or past its deadline)
    r_main,      \* RunTests itself: "spawn", "wait" or "returned"
    r_spawned,   \* goroutines started by the for loop so far
    r_done,      \* the local `done`
    s_cur,       \* semaphore.Weighted: permits taken
    s_waiters,   \* semaphore.Weighted: callers queued in Acquire, oldest first
    s_ready,     \* queued callers whose permit was granted by a Release
    g_pc,        \* position of each test goroutine
    g_held,      \* permits each goroutine has acquired and not released
    g_fail,      \* the test body aborted (t.Fatal, failed require)
    e_last,      \* TestEnv.lastCtx: 0 for nil, else the number of the context
    e_cancelled  \* contexts of this TestEnv whose CancelFunc has been called

schedVars == <<r_n, r_conc, r_ctx, r_main, r_spawned, r_done, s_cur, s_waiters,
               s_ready, g_pc, g_held, g_fail, e_last, e_cancelled>>

VARIABLES
    \* ---- calls of the wait helpers ----
    w_kind,      \* which helper the caller runs
    w_arg,       \* its argument: target height, expected status or block id
    w_ctx,       \* the caller's ctx is done (cancelled or past its deadline)
    w_pc,        \* position of the call
    w_ret,       \* how the call ended: "return", "fatal" (t.Fatal) or "panic"
    w_receipt,   \* the receipt returned: its status, -1 for nil
    w_err,       \* the error returned, or reported by the fatal failure
    w_last,      \* the last answer or notification the endpoint gave
    w_val,       \* its value: a height, a receipt status or a block id
    w_cause      \* why the call ended (history): "satisfied", "mismatch",
                 \* "cancel", "error", or "nosub" when the subscription failed

waitVars == <<w_kind, w_arg, w_ctx, w_pc, w_ret, w_receipt, w_err, w_last, w_val,
              w_cause>>

VARIABLES
    \* ---- Devnet (one instance) ----
    d_mu,        \* Devnet's sync.Mutex: 0 when free, else the caller holding it
    d_seqs,      \* l1Engines, l2Engines, drivers, proposers, provers
    d_pc,        \* position of each caller inside its operation
    d_op,        \* the operation each caller calls, "none" before
    d_idx,       \* the idx argument of GetL1ELNode / GetL2ELNode
    d_seen,      \* d.l2Engines when AddL2ELNode took the lock (history)
    d_opts,      \* the boot-node options AddL2ELNode has appended to opts
    d_peers,     \* the boot-peers the client a caller started was given
    d_got,       \* the node GetL1ELNode / GetL2ELNode returned
    d_err,       \* why the operation of a caller was fatal
    d_started,   \* the clients StartClient has started
    d_deploys,   \* results of the deploy.sh runs against each engine (history)
    d_wl,        \* outcome of the whitelist transaction of each prover (history)
    d_calls,     \* the calls of Add operations in the order they were made:
                 \* [who, had: the nodes of the sequence at that time] (history)
    d_inlock     \* what each caller did while it held the lock (history)

devVars == <<d_mu, d_seqs, d_pc, d_op, d_idx, d_seen, d_opts, d_peers, d_got, d_err,
             d_started, d_deploys, d_wl, d_calls, d_inlock>>

VARIABLES
    \* ---- runAllTests of the rpc simulator ----
    a_tests,     \* the package's list `tests`: Name and Run of each entry
    a_perIter,   \* the loop variable `test` is a new variable in every
                 \* iteration (go directive 1.22 or later); else one per loop
    a_pc,        \* "loop": in the for loop, "run": in taiko.RunTests
    a_i,         \* iterations of the loop done
    a_test,      \* the variables `test`: variable -> the entry it holds
    a_adapted,   \* adaptedTests: Name, and the variable `test` its Run closes over
    a_ran        \* what RunTests running adaptedTests[i] has executed

adaptVars == <<a_tests, a_perIter, a_pc, a_i, a_test, a_adapted, a_ran>>

vars == <<vaultVars, schedVars, waitVars, devVars, adaptVars>>

\* what the steps of one component leave alone
notVault == <<schedVars, waitVars, devVars, adaptVars>>
notSched == <<vaultVars, waitVars, devVars, adaptVars>>
notWait == <<vaultVars, schedVars, devVars, adaptVars>>
notDev == <<vaultVars, schedVars, waitVars, adaptVars>>
notAdapt == <<vaultVars, schedVars, waitVars, devVars>>

(***************************************************************************)
(* Vault                                                                   *)
(***************************************************************************)
Callers == 1..NumCallers

\* crypto.GenerateKey: every call yields a key never seen before.
KeyOf(t) == t

\* crypto.PubkeyToAddress
PubkeyToAddress(k) == 100 + k

\* a key made outside the Vault, for InsertKey
ExternalKey == NumCallers + 1

Keys == {KeyOf(t) : t \in Callers} \cup {ExternalKey}

Addrs == {PubkeyToAddress(k) : k \in Keys}

\* no call of SignTransaction has returned
NoResult == <<0, "none">>

\* no call has started
NoKeyCalls ==
    /\ v_op = [t \in Callers |-> "none"]
    /\ v_arg = [t \in Callers |-> 0]
    /\ v_had = [t \in Callers |-> FALSE]
    /\ v_found = [t \in Callers |-> -1]
    /\ v_out = [t \in Callers |-> NoResult]

\* the first poll (0-based) whose answer is not "not found"; PollBudget: none
PollCases == {0, 1, PollBudget - 1, PollBudget}

\* no poll for a receipt has been answered
NoAnswer == [hash |-> -1, ans |-> "none"]

\* the zero value NewVault leaves in Vault.nonce
InitialNonce == 0

NewVault ==
    /\ v_mu = 0
    /\ v_nonce = InitialNonce
    /\ v_accounts = [a \in Addrs |-> 0]
    /\ v_pc = [t \in Callers |-> "start"]
    /\ v_local = [t \in Callers |-> -1]
    /\ v_tx = [t \in Callers |-> -1]
    /\ v_polls = [t \in Callers |-> 0]
    /\ v_ans = [t \in Callers |-> NoAnswer]
    /\ v_built = <<>>
    /\ v_sent = <<>>
    /\ NoKeyCalls

\* mutant: Lock never waits
MuFree_Never(mu) == TRUE

\* sync.Mutex.Lock succeeds only on a free mutex
MuFree(mu) == mu = 0

\* GenerateKey, up to v.mu.Lock(); called by CreateAccount or by itself
GenerateKey_Lock(t) ==
    /\ v_pc[t] = "start"
    /\ MuFree(v_mu)
    /\ v_mu' = t
    /\ v_pc' = [v_pc EXCEPT ![t] = "gk_locked"]
    /\ \E op \in {"CreateAccount", "GenerateKey"} : v_op' = [v_op EXCEPT ![t] = op]
    /\ UNCHANGED <<v_nonce, v_accounts, v_local, v_tx, v_polls, v_ans, v_built, v_sent>>
    /\ UNCHANGED <<v_arg, v_had, v_found, v_out>>
    /\ UNCHANGED notVault

\* GenerateKey: v.accounts[addr] = key, deferred Unlock
GenerateKey_Store(t) ==
    /\ v_pc[t] = "gk_locked"
    /\ v_accounts' = [v_accounts EXCEPT ![PubkeyToAddress(KeyOf(t))] = KeyOf(t)]
    /\ v_mu' = 0
    /\ v_pc' = [v_pc EXCEPT ![t] = IF v_op[t] = "CreateAccount" THEN "nonce" ELSE "returned"]
    /\ UNCHANGED <<v_nonce, v_local, v_tx, v_polls, v_ans, v_built, v_sent>>
    /\ UNCHANGED keyVars
    /\ UNCHANGED notVault

\* the keys a caller can pass to InsertKey: one made outside the Vault, or
\* one the Vault gave out
Insertable(accounts) ==
    {k \in Keys : k = ExternalKey \/ accounts[PubkeyToAddress(k)] = k}

\* InsertKey, up to v.mu.Lock()
InsertKey_Lock(t) ==
    /\ v_pc[t] = "start"
    /\ MuFree(v_mu)
    /\ v_mu' = t
    /\ v_pc' = [v_pc EXCEPT ![t] = "ik_locked"]
    /\ v_op' = [v_op EXCEPT ![t] = "InsertKey"]
    /\ \E k \in Insertable(v_accounts) : v_arg' = [v_arg EXCEPT ![t] = k]
    /\ UNCHANGED <<v_nonce, v_accounts, v_local, v_tx, v_polls, v_ans, v_built, v_sent>>
    /\ UNCHANGED <<v_had, v_found, v_out>>
    /\ UNCHANGED notVault

\* mutant: InsertKey starts a new map
InsertKey_Store_NewMap(t) ==
    /\ v_pc[t] = "ik_locked"
    /\ v_accounts' = [a \in Addrs |->
                         IF a = PubkeyToAddress(v_arg[t]) THEN v_arg[t] ELSE 0]
    /\ v_mu' = 0
    /\ v_pc' = [v_pc EXCEPT ![t] = "returned"]
    /\ UNCHANGED <<v_nonce, v_local, v_tx, v_polls, v_ans, v_built, v_sent>>
    /\ UNCHANGED keyVars
    /\ UNCHANGED notVault

\* InsertKey: v.accounts[addr] = key, deferred Unlock
InsertKey_Store(t) ==
    /\ v_pc[t] = "ik_locked"
    /\ v_accounts' = [v_accounts EXCEPT ![PubkeyToAddress(v_arg[t])] = v_arg[t]]
    /\ v_mu' = 0
    /\ v_pc' = [v_pc EXCEPT ![t] = "returned"]
    /\ UNCHANGED <<v_nonce, v_local, v_tx, v_polls, v_ans, v_built, v_sent>>
    /\ UNCHANGED keyVars
    /\ UNCHANGED notVault

\* FindKey, up to v.mu.Lock(); called by SignTransaction or by itself
FindKey_Lock(t) ==
    /\ v_pc[t] = "start"
    /\ MuFree(v_mu)
    /\ v_mu' = t
    /\ v_pc' = [v_pc EXCEPT ![t] = "fk_locked"]
    /\ \E op \in {"FindKey", "SignTransaction"} : v_op' = [v_op EXCEPT ![t] = op]
    /\ \E a \in Addrs :
          /\ v_arg' = [v_arg EXCEPT ![t] = a]
          /\ v_had' = [v_had EXCEPT ![t] = v_accounts[a] # 0]
    /\ UNCHANGED <<v_nonce, v_accounts, v_local, v_tx, v_polls, v_ans, v_built, v_sent>>
    /\ UNCHANGED <<v_found, v_out>>
    /\ UNCHANGED notVault

\* FindKey: return v.accounts[addr], deferred Unlock
FindKey_Read(t) ==
    /\ v_pc[t] = "fk_locked"
    /\ v_found' = [v_found EXCEPT ![t] = v_accounts[v_arg[t]]]
    /\ v_mu' = 0
    /\ v_pc' = [v_pc EXCEPT ![t] = IF v_op[t] = "FindKey" THEN "returned" ELSE "sign"]
    /\ UNCHANGED <<v_nonce, v_accounts, v_local, v_tx, v_polls, v_ans, v_built, v_sent>>
    /\ UNCHANGED <<v_op, v_arg, v_had, v_out>>
    /\ UNCHANGED notVault

\* mutant: the key is used without the check for nil
SignResults_NoCheck(key) == {<<key, "nil">>, <<0, "signtx">>}

\* SignTransaction after FindKey: the results it can return for the key
\* found, as <<key that signed (0: no transaction), error>>. types.SignTx
\* signs or fails with an error of its own.
SignResults(key) ==
    IF key = 0 THEN {<<0, "unknown">>} ELSE {<<key, "nil">>, <<0, "signtx">>}

\* SignTransaction: the check of the key and types.SignTx
SignTransaction_Sign(t) ==
    /\ v_pc[t] = "sign"
    /\ \E r \in SignResults(v_found[t]) : v_out' = [v_out EXCEPT ![t] = r]
    /\ v_pc' = [v_pc EXCEPT ![t] = "returned"]
    /\ UNCHANGED <<v_mu, v_nonce, v_accounts, v_local, v_tx, v_polls, v_ans, v_built, v_sent>>
    /\ UNCHANGED <<v_op, v_arg, v_had, v_found>>
    /\ UNCHANGED notVault

\* nextNonce: v.mu.Lock(); nonce := v.nonce
nextNonce_Read(t) ==
    /\ v_pc[t] = "nonce"
    /\ MuFree(v_mu)
    /\ v_mu' = t
    /\ v_local' = [v_local EXCEPT ![t] = v_nonce]
    /\ v_pc' = [v_pc EXCEPT ![t] = "nn_locked"]
    /\ UNCHANGED <<v_nonce, v_accounts, v_tx, v_polls, v_ans, v_built, v_sent>>
    /\ UNCHANGED keyVars
    /\ UNCHANGED notVault

\* mutant: the counter is not advanced
IncNonce_Stuck(n) == n

\* the value nextNonce leaves in v.nonce
IncNonce(n) == n + 1

\* mutant: nextNonce returns without unlocking
nextNonce_Inc_NoUnlock(t) ==
    /\ v_pc[t] = "nn_locked"
    /\ v_nonce' = IncNonce(v_nonce)
    /\ UNCHANGED v_mu
    /\ v_tx' = [v_tx EXCEPT ![t] = v_local[t]]
    /\ v_built' = Append(v_built, v_local[t])
    /\ v_pc' = [v_pc EXCEPT ![t] = "send"]
    /\ UNCHANGED <<v_accounts, v_local, v_polls, v_ans, v_sent>>
    /\ UNCHANGED keyVars
    /\ UNCHANGED notVault

\* nextNonce: v.nonce++, deferred Unlock, return nonce; makeFundingTx builds
\* and signs the transaction with it
nextNonce_Inc(t) ==
    /\ v_pc[t] = "nn_locked"
    /\ v_nonce' = IncNonce(v_nonce)
    /\ v_mu' = IF v_mu = t THEN 0 ELSE v_mu
    /\ v_tx' = [v_tx EXCEPT ![t] = v_local[t]]
    /\ v_built' = Append(v_built, v_local[t])
    /\ v_pc' = [v_pc EXCEPT ![t] = "send"]
    /\ UNCHANGED <<v_accounts, v_local, v_polls, v_ans, v_sent>>
    /\ UNCHANGED keyVars
    /\ UNCHANGED notVault

\* mutant: a failed broadcast gives its nonce back
SendTransaction_Rollback(t) ==
    /\ v_pc[t] = "send"
    /\ \/ /\ v_sent' = Append(v_sent, [nonce |-> v_tx[t], ok |-> TRUE])
          /\ v_pc' = [v_pc EXCEPT ![t] = "poll"]
          /\ UNCHANGED v_nonce
       \/ /\ v_sent' = Append(v_sent, [nonce |-> v_tx[t], ok |-> FALSE])
          /\ v_pc' = [v_pc EXCEPT ![t] = "fatal_send"]
          /\ v_nonce' = v_nonce - 1
    /\ UNCHANGED <<v_mu, v_accounts, v_local, v_tx, v_polls, v_ans, v_built>>
    /\ UNCHANGED keyVars
    /\ UNCHANGED notVault

\* client.SendTransaction and the Fatalf on its error
SendTransaction(t) ==
    /\ v_pc[t] = "send"
    /\ \/ /\ v_sent' = Append(v_sent, [nonce |-> v_tx[t], ok |-> TRUE])
          /\ v_pc' = [v_pc EXCEPT ![t] = "poll"]
       \/ /\ v_sent' = Append(v_sent, [nonce |-> v_tx[t], ok |-> FALSE])
          /\ v_pc' = [v_pc EXCEPT ![t] = "fatal_send"]
    /\ UNCHANGED <<v_mu, v_nonce, v_accounts, v_local, v_tx, v_polls, v_ans, v_built>>
    /\ UNCHANGED keyVars
    /\ UNCHANGED notVault

\* what client.TransactionReceipt answers to poll i, when the first answer other
\* than "not found" comes at poll k and is ans ("receipt" or "rpcerr")
Answer(i, k, ans) == IF i = k THEN ans ELSE "notfound"

\* mutant: no error of a poll is fatal
PollFatal_Never(ans) == FALSE

\* err != nil && !errors.Is(err, ethereum.NotFound)
PollFatal(ans) == ans \notin {"receipt", "notfound"}

\* receipt != nil
HasReceipt(ans) == ans = "receipt"

\* The receipt loop of CreateAccount from iteration i on, with the answers of
\* Answer(_, k, ans). The result is <<outcome, polls made>>.
RECURSIVE PollLoop(_, _, _)
PollLoop(i, k, ans) ==
    IF i < PollBudget
    THEN IF PollFatal(Answer(i, k, ans))
         THEN <<"fatal_rpc", i + 1>>
         ELSE IF HasReceipt(Answer(i, k, ans))
              THEN <<"returned", i + 1>>
              ELSE PollLoop(i + 1, k, ans)
    ELSE <<"fatal_timeout", i>>

\* CreateAccount, the polling for the receipt of tx.Hash()
PollReceipt(t) ==
    /\ v_pc[t] = "poll"
    /\ \E k \in PollCases, ans \in {"receipt", "rpcerr"} :
          \E r \in {PollLoop(0, k, ans)} :
          /\ v_pc' = [v_pc EXCEPT ![t] = r[1]]
          /\ v_polls' = [v_polls EXCEPT ![t] = r[2]]
          /\ v_ans' = [v_ans EXCEPT ![t] = [hash |-> v_tx[t],
                                           ans |-> Answer(r[2] - 1, k, ans)]]
    /\ UNCHANGED <<v_mu, v_nonce, v_accounts, v_local, v_tx, v_built, v_sent>>
    /\ UNCHANGED keyVars
    /\ UNCHANGED notVault

CreateAccount(t) ==
    \/ GenerateKey_Lock(t)
    \/ GenerateKey_Store(t)
    \/ nextNonce_Read(t)
    \/ nextNonce_Inc(t)
    \/ SendTransaction(t)
    \/ PollReceipt(t)

\* the calls of InsertKey, FindKey and SignTransaction
KeyCall(t) ==
    \/ InsertKey_Lock(t)
    \/ InsertKey_Store(t)
    \/ FindKey_Lock(t)
    \/ FindKey_Read(t)
    \/ SignTransaction_Sign(t)

(***************************************************************************)
(* RunTests, its semaphore and the TestEnv of each test                    *)
(***************************************************************************)
Tests == 1..MaxTests

\* semaphore.NewWeighted(params.Concurrency), `done`, doneCh; no goroutine yet
RunTestsInit ==
    /\ r_n \in 1..MaxTests
    /\ r_conc \in 1..MaxConc
    /\ r_ctx = FALSE
    /\ r_main = "spawn"
    /\ r_spawned = 0
    /\ r_done = 0
    /\ s_cur = 0
    /\ s_waiters = <<>>
    /\ s_ready = {}
    /\ g_pc = [i \in Tests |-> "none"]
    /\ g_held = [i \in Tests |-> 0]
    /\ g_fail = [i \in Tests |-> FALSE]
    /\ e_last = [i \in Tests |-> 0]
    /\ e_cancelled = [i \in Tests |-> {}]

\* mutant: Acquire never looks at the permits taken
SemFree_Unbounded(size, cur, waiters) == TRUE

\* Weighted.Acquire takes a permit at once when one is left and nobody queues
SemFree(size, cur, waiters) == size - cur >= 1 /\ Len(waiters) = 0

\* Weighted.notifyWaiters for waiters of weight 1: how many of the oldest
\* waiters get a permit when cur permits are taken
Granted(size, cur, waiters) ==
    IF size - cur < Len(waiters) THEN size - cur ELSE Len(waiters)

\* the permits a goroutine gives back with s.Release(1)
ReleaseCount == 1

\* Weighted.Release(ReleaseCount) followed by notifyWaiters: the new
\* <<cur, waiters, ready>>
SemRelease(size, cur, waiters, ready) ==
    LET c == cur - ReleaseCount
        k == Granted(size, c, waiters)
    IN <<c + k,
         SubSeq(waiters, k + 1, Len(waiters)),
         ready \cup {waiters[j] : j \in 1..k}>>

\* a queue without the caller i (Acquire gives up on a done ctx)
Without(waiters, i) == SelectSeq(waiters, LAMBDA w : w # i)

\* the for loop of RunTests: go func(test) for the next test
Spawn ==
    /\ r_main = "spawn"
    /\ r_spawned < r_n
    /\ r_spawned' = r_spawned + 1
    /\ g_pc' = [g_pc EXCEPT ![r_spawned + 1] = "acq1"]
    /\ UNCHANGED <<r_n, r_conc, r_ctx, r_main, r_done, s_cur, s_waiters, s_ready,
                   g_held, g_fail, e_last, e_cancelled>>
    /\ UNCHANGED notSched

\* the for loop is over; RunTests enters `for done < len(params.Tests)`
SpawnDone ==
    /\ r_main = "spawn"
    /\ r_spawned = r_n
    /\ r_main' = "wait"
    /\ UNCHANGED <<r_n, r_conc, r_ctx, r_spawned, r_done, s_cur, s_waiters, s_ready,
                   g_pc, g_held, g_fail, e_last, e_cancelled>>
    /\ UNCHANGED notSched

\* the position a goroutine reaches when the Acquire at `at` succeeds
AfterAcquire(at) == IF at \in {"acq1", "wait1"} THEN "acq2" ELSE "run"

\* the defer s.Release(1) of line 143 is registered once the first Acquire
\* has returned
ReleaseDeferred(at) == at \in {"acq2", "wait2"}

\* require.NoError on a failed Acquire: t.FailNow ends the goroutine
\* (runtime.Goexit), which runs the deferred Release when it is registered.
\* cur, waiters, ready: the semaphore as the failed Acquire left it.
FailedAcquire(i, at, cur, waiters, ready) ==
    IF ReleaseDeferred(at)
    THEN LET r == SemRelease(r_conc, cur, waiters, ready) IN
         /\ s_cur' = r[1]
         /\ s_waiters' = r[2]
         /\ s_ready' = r[3]
         /\ g_held' = [g_held EXCEPT ![i] = @ - ReleaseCount]
         /\ g_pc' = [g_pc EXCEPT ![i] = "dead"]
    ELSE /\ s_cur' = cur
         /\ s_waiters' = waiters
         /\ s_ready' = ready
         /\ g_held' = g_held
         /\ g_pc' = [g_pc EXCEPT ![i] = "dead"]

\* s.Acquire(ctx, 1) at line 142 (at = "acq1") or line 149 (at = "acq2"):
\* the permit is free and is taken, or the caller queues, or, ctx being done,
\* Acquire returns ctx.Err() (the library versions that look at ctx first)
Acquire(i, at) ==
    /\ g_pc[i] = at
    /\ \/ /\ SemFree(r_conc, s_cur, s_waiters)
          /\ s_cur' = s_cur + 1
          /\ g_held' = [g_held EXCEPT ![i] = @ + 1]
          /\ g_pc' = [g_pc EXCEPT ![i] = AfterAcquire(at)]
          /\ UNCHANGED <<s_waiters, s_ready>>
       \/ /\ ~SemFree(r_conc, s_cur, s_waiters)
          /\ s_waiters' = Append(s_waiters, i)
          /\ g_pc' = [g_pc EXCEPT ![i] = IF at = "acq1" THEN "wait1" ELSE "wait2"]
          /\ UNCHANGED <<s_cur, s_ready, g_held>>
       \/ /\ r_ctx
          /\ FailedAcquire(i, at, s_cur, s_waiters, s_ready)
    /\ UNCHANGED <<r_n, r_conc, r_ctx, r_main, r_spawned, r_done, g_fail, e_last,
                   e_cancelled>>
    /\ UNCHANGED notSched

\* the select of a queued Acquire: the permit was granted and Acquire returns
\* nil; or ctx is done and Acquire returns ctx.Err(), after giving the granted
\* permit back or leaving the queue
AcquireWake(i, at) ==
    /\ g_pc[i] = at
    /\ \/ /\ i \in s_ready
          /\ s_ready' = s_ready \ {i}
          /\ g_held' = [g_held EXCEPT ![i] = @ + 1]
          /\ g_pc' = [g_pc EXCEPT ![i] = AfterAcquire(at)]
          /\ UNCHANGED <<s_cur, s_waiters>>
       \/ /\ i \in s_ready
          /\ r_ctx
          /\ LET r == SemRelease(r_conc, s_cur, s_waiters, s_ready \ {i}) IN
             FailedAcquire(i, at, r[1], r[2], r[3])
       \/ /\ i \notin s_ready
          /\ r_ctx
          /\ FailedAcquire(i, at, s_cur, Without(s_waiters, i), s_ready)
    /\ UNCHANGED <<r_n, r_conc, r_ctx, r_main, r_spawned, r_done, g_fail, e_last,
                   e_cancelled>>
    /\ UNCHANGED notSched

\* mutant: the previous context is not cancelled
TimeoutCtx_NoCancel(i) ==
    /\ g_pc[i] = "run"
    /\ e_last[i] < MaxCtx
    /\ e_last' = [e_last EXCEPT ![i] = @ + 1]
    /\ UNCHANGED <<r_n, r_conc, r_ctx, r_main, r_spawned, r_done, s_cur, s_waiters,
                   s_ready, g_pc, g_held, g_fail, e_cancelled>>
    /\ UNCHANGED notSched

\* mutant: lastCtx and lastCancel are one slot shared by all tests
TimeoutCtx_SharedSlot(i) ==
    /\ g_pc[i] = "run"
    /\ e_last[i] < MaxCtx
    /\ e_cancelled' = [j \in Tests |->
                          IF e_last[j] # 0 THEN e_cancelled[j] \cup {e_last[j]}
                          ELSE e_cancelled[j]]
    /\ e_last' = [e_last EXCEPT ![i] = @ + 1]
    /\ UNCHANGED <<r_n, r_conc, r_ctx, r_main, r_spawned, r_done, s_cur, s_waiters,
                   s_ready, g_pc, g_held, g_fail>>
    /\ UNCHANGED notSched

\* TestEnv.TimeoutCtx (and Ctx), called by the running test body
TimeoutCtx(i) ==
    /\ g_pc[i] = "run"
    /\ e_last[i] < MaxCtx
    /\ e_cancelled' = [e_cancelled EXCEPT ![i] =
                          IF e_last[i] # 0 THEN @ \cup {e_last[i]} ELSE @]
    /\ e_last' = [e_last EXCEPT ![i] = @ + 1]
    /\ UNCHANGED <<r_n, r_conc, r_ctx, r_main, r_spawned, r_done, s_cur, s_waiters,
                   s_ready, g_pc, g_held, g_fail>>
    /\ UNCHANGED notSched

\* test.Run returns: the Run closure cancels the last context, t.Run returns
BodyReturns(i) ==
    /\ g_pc[i] = "run"
    /\ e_cancelled' = [e_cancelled EXCEPT ![i] =
                          IF e_last[i] # 0 THEN @ \cup {e_last[i]} ELSE @]
    /\ g_pc' = [g_pc EXCEPT ![i] = "send"]
    /\ UNCHANGED <<r_n, r_conc, r_ctx, r_main, r_spawned, r_done, s_cur, s_waiters,
                   s_ready, g_held, g_fail, e_last>>
    /\ UNCHANGED notSched

\* test.Run aborts (t.Fatal ends the goroutine of the sub-test): the rest of
\* the Run closure is skipped, t.Run returns
BodyAborts(i) ==
    /\ g_pc[i] = "run"
    /\ g_fail' = [g_fail EXCEPT ![i] = TRUE]
    /\ g_pc' = [g_pc EXCEPT ![i] = "send"]
    /\ UNCHANGED <<r_n, r_conc, r_ctx, r_main, r_spawned, r_done, s_cur, s_waiters,
                   s_ready, g_held, e_last, e_cancelled>>
    /\ UNCHANGED notSched

\* doneCh <- struct{}{} meets `case <-doneCh: done++` (doneCh is unbuffered)
SignalDone(i) ==
    /\ g_pc[i] = "send"
    /\ r_main = "wait"
    /\ r_done < r_n
    /\ r_done' = r_done + 1
    /\ g_pc' = [g_pc EXCEPT ![i] = "release"]
    /\ UNCHANGED <<r_n, r_conc, r_ctx, r_main, r_spawned, s_cur, s_waiters, s_ready,
                   g_held, g_fail, e_last, e_cancelled>>
    /\ UNCHANGED notSched

\* the goroutine function returns: the deferred s.Release(1)
Release(i) ==
    /\ g_pc[i] = "release"
    /\ LET r == SemRelease(r_conc, s_cur, s_waiters, s_ready) IN
       /\ s_cur' = r[1]
       /\ s_waiters' = r[2]
       /\ s_ready' = r[3]
    /\ g_held' = [g_held EXCEPT ![i] = @ - ReleaseCount]
    /\ g_pc' = [g_pc EXCEPT ![i] = "exited"]
    /\ UNCHANGED <<r_n, r_conc, r_ctx, r_main, r_spawned, r_done, g_fail, e_last,
                   e_cancelled>>
    /\ UNCHANGED notSched

\* `for done < len(params.Tests)` ends
AllDone ==
    /\ r_main = "wait"
    /\ r_done >= r_n
    /\ r_main' = "returned"
    /\ UNCHANGED <<r_n, r_conc, r_ctx, r_spawned, r_done, s_cur, s_waiters, s_ready,
                   g_pc, g_held, g_fail, e_last, e_cancelled>>
    /\ UNCHANGED notSched

\* mutant: the select has no ctx.Done() case
CtxDoneReturn_Missing ==
    /\ r_main = "wait"
    /\ r_done < r_n
    /\ r_ctx
    /\ UNCHANGED schedVars
    /\ UNCHANGED notSched

\* `case <-ctx.Done(): return`
CtxDoneReturn ==
    /\ r_main = "wait"
    /\ r_done < r_n
    /\ r_ctx
    /\ r_main' = "returned"
    /\ UNCHANGED <<r_n, r_conc, r_ctx, r_spawned, r_done, s_cur, s_waiters, s_ready,
                   g_pc, g_held, g_fail, e_last, e_cancelled>>
    /\ UNCHANGED notSched

\* the parent context is cancelled or reaches its deadline
CancelCtx ==
    /\ ~r_ctx
    /\ r_ctx' = TRUE
    /\ UNCHANGED <<r_n, r_conc, r_main, r_spawned, r_done, s_cur, s_waiters, s_ready,
                   g_pc, g_held, g_fail, e_last, e_cancelled>>
    /\ UNCHANGED notSched



\* one step of the goroutine of test i
TestGoroutine(i) ==
    \/ Acquire(i, "acq1")
    \/ AcquireWake(i, "wait1")
    \/ Acquire(i, "acq2")
    \/ AcquireWake(i, "wait2")
    \/ TimeoutCtx(i)
    \/ BodyReturns(i)
    \/ BodyAborts(i)
    \/ SignalDone(i)
    \/ Release(i)

\* one step of RunTests itself
RunTests ==
    \/ Spawn
    \/ SpawnDone
    \/ AllDone
    \/ CtxDoneReturn

(***************************************************************************)
(* The wait helpers                                                        *)
(***************************************************************************)
\* two concurrent callers, each with its own ctx
Waiters == {1, 2}

Kinds == {"WaitBlock", "WaitBlockErr", "WaitReceipt", "WaitNewHead", "WaitProveEvent"}

\* types.ReceiptStatusFailed, types.ReceiptStatusSuccessful
Statuses == {0, 1}

Heights == 0..MaxHeight

\* the arguments a helper is called with: a target height, an expected
\* receipt status, or the block id WatchBlockProven filters on (0: no filter)
ArgsOf(kind) == IF kind = "WaitReceipt" THEN Statuses ELSE Heights

\* the calls start; the subscribing helpers have not subscribed yet
WaitInit ==
    /\ w_kind \in [Waiters -> Kinds]
    /\ w_arg \in [Waiters -> Heights]
    /\ \A w \in Waiters : w_arg[w] \in ArgsOf(w_kind[w])
    /\ w_ctx = [w \in Waiters |-> FALSE]
    /\ w_pc = [w \in Waiters |->
                 IF w_kind[w] \in {"WaitNewHead", "WaitProveEvent"} THEN "call" ELSE "poll"]
    /\ w_ret = [w \in Waiters |-> "none"]
    /\ w_receipt = [w \in Waiters |-> -1]
    /\ w_err = [w \in Waiters |-> "nil"]
    /\ w_last = [w \in Waiters |-> "none"]
    /\ w_val = [w \in Waiters |-> -1]
    /\ w_cause = [w \in Waiters |-> "none"]

\* the call of w ends: what its caller gets, and why
Finish(w, ret, receipt, err, cause) ==
    /\ w_pc' = [w_pc EXCEPT ![w] = "done"]
    /\ w_ret' = [w_ret EXCEPT ![w] = ret]
    /\ w_receipt' = [w_receipt EXCEPT ![w] = receipt]
    /\ w_err' = [w_err EXCEPT ![w] = err]
    /\ w_cause' = [w_cause EXCEPT ![w] = cause]

\* the endpoint answered ans (with value val) to the call of w
Heard(w, ans, val) ==
    /\ w_last' = [w_last EXCEPT ![w] = ans]
    /\ w_val' = [w_val EXCEPT ![w] = val]

\* An RPC made with a done ctx fails with ctx.Err(); with a live one it
\* fails with an error of the endpoint or answers.
RpcFails(w) == IF w_ctx[w] THEN {"ctx"} ELSE {"rpc"}

\* why a call that got the error err ended
CauseOf(err) == IF err = "ctx" THEN "cancel" ELSE "error"

\* WaitBlock: client.BlockNumber fails. helper.go: require.NoError ends the
\* test; devnet.go ("WaitBlockErr"): the error is returned
WaitBlock_Error(w) ==
    /\ w_kind[w] \in {"WaitBlock", "WaitBlockErr"}
    /\ w_pc[w] = "poll"
    /\ \E err \in RpcFails(w) :
          /\ Heard(w, err, -1)
          /\ Finish(w, IF w_kind[w] = "WaitBlock" THEN "fatal" ELSE "return", -1, err,
                    CauseOf(err))
    /\ UNCHANGED <<w_kind, w_arg, w_ctx>>
    /\ UNCHANGED notWait

\* mutant: no height is below the target
Below_Never(height, n) == FALSE

\* `height < n`
Below(height, n) == height < n

\* WaitBlock: client.BlockNumber answers a height
WaitBlock_Height(w) ==
    /\ w_kind[w] \in {"WaitBlock", "WaitBlockErr"}
    /\ w_pc[w] = "poll"
    /\ ~w_ctx[w]
    /\ \E h \in Heights :
          /\ Heard(w, "height", h)
          /\ IF Below(h, w_arg[w])
             THEN /\ w_pc' = [w_pc EXCEPT ![w] = "sleep"]
                  /\ UNCHANGED <<w_ret, w_receipt, w_err, w_cause>>
             ELSE Finish(w, "return", -1, "nil", "satisfied")
    /\ UNCHANGED <<w_kind, w_arg, w_ctx>>
    /\ UNCHANGED notWait

\* WaitBlock: time.Sleep(500 * time.Millisecond) is over
WaitBlock_Slept(w) ==
    /\ w_kind[w] \in {"WaitBlock", "WaitBlockErr"}
    /\ w_pc[w] = "sleep"
    /\ w_pc' = [w_pc EXCEPT ![w] = "poll"]
    /\ UNCHANGED <<w_kind, w_arg, w_ctx, w_ret, w_receipt, w_err, w_last, w_val, w_cause>>
    /\ UNCHANGED notWait

\* mutant: every error is polled again
IsNotFound_AnyError(ans) == ans \in {"notfound", "rpc"}

\* errors.Is(err, ethereum.NotFound)
IsNotFound(ans) == ans = "notfound"

\* mutant: no receipt is returned with the status error
ReceiptResult_NilOnMismatch(ans, st, status) ==
    IF ans # "receipt" THEN <<-1, ans>>
    ELSE IF st # status THEN <<-1, "status">>
    ELSE <<st, "nil">>

\* WaitReceipt after the select: what it returns for an answer that is not
\* "not found", as <<receipt, err>>
ReceiptResult(ans, st, status) ==
    IF ans # "receipt" THEN <<-1, ans>>
    ELSE IF st # status THEN <<st, "status">>
    ELSE <<st, "nil">>

\* why WaitReceipt ended with the result r
ReceiptCause(r) ==
    IF r[2] = "nil" THEN "satisfied"
    ELSE IF r[2] = "status" THEN "mismatch"
    ELSE CauseOf(r[2])

\* WaitReceipt: client.TransactionReceipt and what follows it
WaitReceipt_Poll(w) ==
    /\ w_kind[w] = "WaitReceipt"
    /\ w_pc[w] = "poll"
    /\ \E ans \in IF w_ctx[w] THEN {"ctx"} ELSE {"notfound", "rpc", "receipt"},
          st \in Statuses :
          /\ ans # "receipt" => st = 0
          /\ Heard(w, ans, IF ans = "receipt" THEN st ELSE -1)
          /\ IF IsNotFound(ans)
             THEN /\ w_pc' = [w_pc EXCEPT ![w] = "select"]
                  /\ UNCHANGED <<w_ret, w_receipt, w_err, w_cause>>
             ELSE LET r == ReceiptResult(ans, st, w_arg[w]) IN
                  Finish(w, "return", r[1], r[2], ReceiptCause(r))
    /\ UNCHANGED <<w_kind, w_arg, w_ctx>>
    /\ UNCHANGED notWait

\* mutant: the tick ends the wait with a timeout
WaitReceipt_Tick_GivesUp(w) ==
    /\ w_kind[w] = "WaitReceipt"
    /\ w_pc[w] = "select"
    /\ Finish(w, "return", -1, "ctx", "cancel")
    /\ UNCHANGED <<w_kind, w_arg, w_ctx, w_last, w_val>>
    /\ UNCHANGED notWait

\* WaitReceipt: `case <-ticker.C: continue`
WaitReceipt_Tick(w) ==
    /\ w_kind[w] = "WaitReceipt"
    /\ w_pc[w] = "select"
    /\ w_pc' = [w_pc EXCEPT ![w] = "poll"]
    /\ UNCHANGED <<w_kind, w_arg, w_ctx, w_ret, w_receipt, w_err, w_last, w_val, w_cause>>
    /\ UNCHANGED notWait

\* WaitReceipt: `case <-ctx.Done(): return nil, ctx.Err()`
WaitReceipt_CtxDone(w) ==
    /\ w_kind[w] = "WaitReceipt"
    /\ w_pc[w] = "select"
    /\ w_ctx[w]
    /\ Finish(w, "return", -1, "ctx", "cancel")
    /\ UNCHANGED <<w_kind, w_arg, w_ctx, w_last, w_val>>
    /\ UNCHANGED notWait

\* WaitNewHead: cli.SubscribeNewHead and require.NoError on its error
WaitNewHead_Subscribe(w) ==
    /\ w_kind[w] = "WaitNewHead"
    /\ w_pc[w] = "call"
    /\ \/ /\ ~w_ctx[w]
          /\ w_pc' = [w_pc EXCEPT ![w] = "loop"]
          /\ UNCHANGED <<w_ret, w_receipt, w_err, w_last, w_val, w_cause>>
       \/ \E err \in RpcFails(w) :
             /\ Heard(w, err, -1)
             /\ Finish(w, "fatal", -1, err, "nosub")
    /\ UNCHANGED <<w_kind, w_arg, w_ctx>>
    /\ UNCHANGED notWait

\* mutant: every head ends the wait
HeadReached_Any(h, want) == TRUE

\* `h.Number.Uint64() >= wantHeight.Uint64()`
HeadReached(h, want) == h >= want

\* WaitNewHead: `case h := <-ch`
WaitNewHead_Head(w) ==
    /\ w_kind[w] = "WaitNewHead"
    /\ w_pc[w] = "loop"
    /\ \E h \in Heights :
          /\ Heard(w, "head", h)
          /\ IF HeadReached(h, w_arg[w])
             THEN Finish(w, "return", -1, "nil", "satisfied")
             ELSE UNCHANGED <<w_pc, w_ret, w_receipt, w_err, w_cause>>
    /\ UNCHANGED <<w_kind, w_arg, w_ctx>>
    /\ UNCHANGED notWait

\* WaitNewHead: `case err := <-sub.Err()` and require.NoError
WaitNewHead_SubErr(w) ==
    /\ w_kind[w] = "WaitNewHead"
    /\ w_pc[w] = "loop"
    /\ Heard(w, "sub", -1)
    /\ Finish(w, "fatal", -1, "sub", "error")
    /\ UNCHANGED <<w_kind, w_arg, w_ctx>>
    /\ UNCHANGED notWait

\* mutant: the select has no ctx.Done() case
WaitNewHead_CtxDone_Missing(w) ==
    /\ w_kind[w] = "WaitNewHead"
    /\ w_pc[w] = "loop"
    /\ w_ctx[w]
    /\ UNCHANGED waitVars
    /\ UNCHANGED notWait

\* WaitNewHead: `case <-ctx.Done(): t.Fatalf(...)`
WaitNewHead_CtxDone(w) ==
    /\ w_kind[w] = "WaitNewHead"
    /\ w_pc[w] = "loop"
    /\ w_ctx[w]
    /\ Finish(w, "fatal", -1, "ctx", "cancel")
    /\ UNCHANGED <<w_kind, w_arg, w_ctx, w_last, w_val>>
    /\ UNCHANGED notWait

\* WaitProveEvent: taikoL1.WatchBlockProven. On its error sub is nil, and
\* `defer sub.Unsubscribe()`, which comes before the check of err, panics
WaitProveEvent_Watch(w) ==
    /\ w_kind[w] = "WaitProveEvent"
    /\ w_pc[w] = "call"
    /\ \/ /\ ~w_ctx[w]
          /\ w_pc' = [w_pc EXCEPT ![w] = "loop"]
          /\ UNCHANGED <<w_ret, w_receipt, w_err, w_last, w_val, w_cause>>
       \/ \E err \in RpcFails(w) :
             /\ Heard(w, err, -1)
             /\ Finish(w, "panic", -1, "nilsub", "nosub")
    /\ UNCHANGED <<w_kind, w_arg, w_ctx>>
    /\ UNCHANGED notWait

\* the block ids WatchBlockProven delivers under the filter want (0: all)
Delivered(want) == IF want = 0 THEN 1..MaxHeight ELSE {want}

\* `e.Id.Uint64() == 1`
EventMatches(id, want) == id = 1

\* WaitProveEvent: `case e := <-eventCh`
WaitProveEvent_Event(w) ==
    /\ w_kind[w] = "WaitProveEvent"
    /\ w_pc[w] = "loop"
    /\ \E id \in Delivered(w_arg[w]) :
          /\ Heard(w, "event", id)
          /\ IF EventMatches(id, w_arg[w])
             THEN Finish(w, "return", -1, "nil", "satisfied")
             ELSE UNCHANGED <<w_pc, w_ret, w_receipt, w_err, w_cause>>
    /\ UNCHANGED <<w_kind, w_arg, w_ctx>>
    /\ UNCHANGED notWait

\* WaitProveEvent: `case err := <-sub.Err(): t.Fatal(...)`
WaitProveEvent_SubErr(w) ==
    /\ w_kind[w] = "WaitProveEvent"
    /\ w_pc[w] = "loop"
    /\ Heard(w, "sub", -1)
    /\ Finish(w, "fatal", -1, "sub", "error")
    /\ UNCHANGED <<w_kind, w_arg, w_ctx>>
    /\ UNCHANGED notWait

\* WaitProveEvent: `case <-ctx.Done(): t.Log(...); return`
WaitProveEvent_CtxDone(w) ==
    /\ w_kind[w] = "WaitProveEvent"
    /\ w_pc[w] = "loop"
    /\ w_ctx[w]
    /\ Finish(w, "return", -1, "nil", "cancel")
    /\ UNCHANGED <<w_kind, w_arg, w_ctx, w_last, w_val>>
    /\ UNCHANGED notWait

\* the ctx of a caller is cancelled or reaches its deadline
WaitCancel(w) ==
    /\ ~w_ctx[w]
    /\ w_ctx' = [w_ctx EXCEPT ![w] = TRUE]
    /\ UNCHANGED <<w_kind, w_arg, w_pc, w_ret, w_receipt, w_err, w_last, w_val, w_cause>>
    /\ UNCHANGED notWait

\* the steps a helper takes by itself
WaitStep(w) ==
    \/ WaitBlock_Error(w)
    \/ WaitBlock_Height(w)
    \/ WaitBlock_Slept(w)
    \/ WaitReceipt_Poll(w)
    \/ WaitReceipt_Tick(w)
    \/ WaitReceipt_CtxDone(w)
    \/ WaitNewHead_Subscribe(w)
    \/ WaitNewHead_CtxDone(w)
    \/ WaitProveEvent_Watch(w)
    \/ WaitProveEvent_CtxDone(w)

\* what the endpoint delivers to a subscription
WaitDelivery(w) ==
    \/ WaitNewHead_Head(w)
    \/ WaitNewHead_SubErr(w)
    \/ WaitProveEvent_Event(w)
    \/ WaitProveEvent_SubErr(w)

(***************************************************************************)
(* Devnet: the node sequences and the operations that add to and read them *)
(***************************************************************************)
DevCallers == 1..NumDevCallers

\* the sequences of a Devnet
Roles == {"l1Engines", "l2Engines", "drivers", "proposers", "provers"}

Adds == {"AddL1ELNode", "AddL2ELNode", "AddDriverNode", "AddProposerNode",
         "AddProverNode"}

Gets == {"GetL1ELNode", "GetL2ELNode"}

\* the sequence an operation appends to or reads
RoleOf(op) ==
    CASE op \in {"AddL1ELNode", "GetL1ELNode"} -> "l1Engines"
      [] op \in {"AddL2ELNode", "GetL2ELNode"} -> "l2Engines"
      [] op = "AddDriverNode" -> "drivers"
      [] op = "AddProposerNode" -> "proposers"
      [] OTHER -> "provers"

\* the elements of a sequence
Range(s) == {s[i] : i \in 1..Len(s)}

\* the node a caller starts is named after the caller; 0 is the node of each
\* role that NewDevnet started
Nodes == 0..NumDevCallers

\* the idx arguments of GetL1ELNode and GetL2ELNode
Idxs == -1..(NumDevCallers - 1)

\* ELNode.EnodeURL
EnodeURL(n) == 500 + n

\* a value read in a data race that is not the element
Torn == -1

\* the result of ContractNode.Exec("deploy.sh") as <<err, ExitCode>>
ExecResults == {<<"nil", 0>>, <<"nil", 1>>, <<"exec", 0>>}

\* no call of a Devnet operation is in progress
DevCallsIn(pc) ==
    /\ d_mu = 0
    /\ d_pc = [c \in DevCallers |-> pc]
    /\ d_op = [c \in DevCallers |-> "none"]
    /\ d_idx = [c \in DevCallers |-> 0]
    /\ d_seen = [c \in DevCallers |-> <<>>]
    /\ d_opts = [c \in DevCallers |-> <<>>]
    /\ d_peers = [c \in DevCallers |-> <<>>]
    /\ d_got = [c \in DevCallers |-> 0]
    /\ d_err = [c \in DevCallers |-> "nil"]
    /\ d_calls = <<>>
    /\ d_inlock = [c \in DevCallers |-> {}]

\* &Devnet{t: t, c: DefaultConfig} after d.Init(): no node yet
EmptyDevnet ==
    /\ d_seqs = [r \in Roles |-> <<>>]
    /\ d_started = [n \in Nodes |-> FALSE]
    /\ d_deploys = [n \in Nodes |-> <<>>]
    /\ d_wl = [n \in Nodes |-> "none"]

\* the Devnet NewDevnet returns: one node of each role, the contracts
\* deployed on the L1 engine, the prover whitelisted
NewDevnet ==
    /\ d_seqs = [r \in Roles |-> <<0>>]
    /\ d_started = [n \in Nodes |-> n = 0]
    /\ d_deploys = [n \in Nodes |-> IF n = 0 THEN <<(<<"nil", 0>>)>> ELSE <<>>]
    /\ d_wl = [n \in Nodes |-> IF n = 0 THEN "success" ELSE "none"]

DevnetInit ==
    /\ EmptyDevnet \/ NewDevnet
    /\ DevCallsIn("start")

\* d.t.Fatal / d.t.Fatalf: the calling goroutine ends (runtime.Goexit); the
\* Devnet lock is left as it is
DevFatal(c, why) ==
    /\ d_pc' = [d_pc EXCEPT ![c] = "fatal"]
    /\ d_err' = [d_err EXCEPT ![c] = why]

\* c makes its call of the Add operation op; had: the nodes that are in the
\* sequence of op at this time
Called(c, op) ==
    d_calls' = Append(d_calls, [who |-> c, had |-> Range(d_seqs[RoleOf(op)])])

\* c, holding the lock, does what
InLock(c, what) == d_inlock' = [d_inlock EXCEPT ![c] = @ \cup what]

\* d.t.StartClient: the client container c is running, or StartClient fails
\* the test
DevStarted(c) == d_started' = [d_started EXCEPT ![c] = TRUE]

\* AddL1ELNode up to deployL1Contracts: the check of d.clients.L1,
\* StartClient and WaitELNodesUp
AddL1ELNode_Start(c) ==
    /\ d_pc[c] = "start"
    /\ d_op' = [d_op EXCEPT ![c] = "AddL1ELNode"]
    /\ \/ /\ DevStarted(c)
          /\ d_pc' = [d_pc EXCEPT ![c] = "deploy"]
          /\ UNCHANGED d_err
       \/ /\ DevFatal(c, "noclient")
          /\ UNCHANGED d_started
       \/ /\ DevFatal(c, "start")
          /\ UNCHANGED d_started
       \/ /\ DevStarted(c)
          /\ DevFatal(c, "notup")
    /\ UNCHANGED <<d_mu, d_seqs, d_idx, d_seen, d_opts, d_peers, d_got, d_deploys, d_wl>>
    /\ Called(c, "AddL1ELNode")
    /\ UNCHANGED d_inlock
    /\ UNCHANGED notDev

\* mutant: only the error of Exec is looked at
DeployFailed_ErrOnly(res) == res[1] # "nil"

\* `err != nil || result.ExitCode != 0`
DeployFailed(res) == res[1] # "nil" \/ res[2] # 0

\* deployL1Contracts: the check of d.clients.Contract, the contract client
\* and deploy.sh run against the engine
deployL1Contracts(c) ==
    /\ d_pc[c] = "deploy"
    /\ \/ /\ DevFatal(c, "noclient")
          /\ UNCHANGED d_deploys
       \/ /\ DevFatal(c, "start")
          /\ UNCHANGED d_deploys
       \/ \E res \in ExecResults :
             /\ d_deploys' = [d_deploys EXCEPT ![c] = Append(@, res)]
             /\ IF DeployFailed(res)
                THEN DevFatal(c, "deploy")
                ELSE /\ d_pc' = [d_pc EXCEPT ![c] = "lock"]
                     /\ UNCHANGED d_err
    /\ UNCHANGED <<d_mu, d_seqs, d_op, d_idx, d_seen, d_opts, d_peers, d_got, d_started,
                   d_wl>>
    /\ UNCHANGED <<d_calls, d_inlock>>
    /\ UNCHANGED notDev

\* AddL2ELNode: the first d.Lock()
AddL2ELNode_Lock(c) ==
    /\ d_pc[c] = "start"
    /\ MuFree(d_mu)
    /\ d_mu' = c
    /\ d_op' = [d_op EXCEPT ![c] = "AddL2ELNode"]
    /\ d_seen' = [d_seen EXCEPT ![c] = d_seqs["l2Engines"]]
    /\ d_pc' = [d_pc EXCEPT ![c] = "collect"]
    /\ UNCHANGED <<d_seqs, d_idx, d_opts, d_peers, d_got, d_err, d_started, d_deploys,
                   d_wl>>
    /\ Called(c, "AddL2ELNode")
    /\ UNCHANGED d_inlock
    /\ UNCHANGED notDev

\* mutant: only the first engine is asked for its enode URL
BootNodes_FirstOnly(engines) ==
    IF engines = <<>> THEN <<>> ELSE <<EnodeURL(engines[1])>>

\* the loop over d.l2Engines when every n.EnodeURL() succeeds: one
\* hivesim.Params{envTaikoBootNode: enodeURL} is appended to opts per engine
BootNodes(engines) == [i \in 1..Len(engines) |-> EnodeURL(engines[i])]

\* AddL2ELNode: the loop over d.l2Engines and d.Unlock(); when an EnodeURL
\* call fails, Fatalf ends the caller inside the loop, before d.Unlock()
AddL2ELNode_Collect(c) ==
    /\ d_pc[c] = "collect"
    /\ \/ /\ d_opts' = [d_opts EXCEPT ![c] = BootNodes(d_seqs["l2Engines"])]
          /\ d_mu' = 0
          /\ d_pc' = [d_pc EXCEPT ![c] = "l2start"]
          /\ UNCHANGED d_err
       \/ /\ d_seqs["l2Engines"] # <<>>
          /\ DevFatal(c, "enode")
          /\ UNCHANGED <<d_opts, d_mu>>
    /\ UNCHANGED <<d_seqs, d_op, d_idx, d_seen, d_peers, d_got, d_started, d_deploys, d_wl>>
    /\ InLock(c, IF d_seqs["l2Engines"] = <<>> THEN {} ELSE {"EnodeURL"})
    /\ UNCHANGED d_calls
    /\ UNCHANGED notDev

\* the boot-peers the started client is given for the boot-node options
BootPeersOf(opts) == opts

\* AddL2ELNode: StartClient with opts, and WaitELNodesUp
AddL2ELNode_Start(c) ==
    /\ d_pc[c] = "l2start"
    /\ \/ /\ DevStarted(c)
          /\ d_peers' = [d_peers EXCEPT ![c] = BootPeersOf(d_opts[c])]
          /\ d_pc' = [d_pc EXCEPT ![c] = "lock"]
          /\ UNCHANGED d_err
       \/ /\ DevFatal(c, "start")
          /\ UNCHANGED <<d_started, d_peers>>
       \/ /\ DevStarted(c)
          /\ d_peers' = [d_peers EXCEPT ![c] = BootPeersOf(d_opts[c])]
          /\ DevFatal(c, "notup")
    /\ UNCHANGED <<d_mu, d_seqs, d_op, d_idx, d_seen, d_opts, d_got, d_deploys, d_wl>>
    /\ UNCHANGED <<d_calls, d_inlock>>
    /\ UNCHANGED notDev

\* AddDriverNode: StartClient
AddDriverNode_Start(c) ==
    /\ d_pc[c] = "start"
    /\ d_op' = [d_op EXCEPT ![c] = "AddDriverNode"]
    /\ \/ /\ DevStarted(c)
          /\ d_pc' = [d_pc EXCEPT ![c] = "lock"]
          /\ UNCHANGED d_err
       \/ /\ DevFatal(c, "start")
          /\ UNCHANGED d_started
    /\ UNCHANGED <<d_mu, d_seqs, d_idx, d_seen, d_opts, d_peers, d_got, d_deploys, d_wl>>
    /\ Called(c, "AddDriverNode")
    /\ UNCHANGED d_inlock
    /\ UNCHANGED notDev

\* AddProposerNode: the check of d.clients.Proposer and StartClient
AddProposerNode_Start(c) ==
    /\ d_pc[c] = "start"
    /\ d_op' = [d_op EXCEPT ![c] = "AddProposerNode"]
    /\ \/ /\ DevStarted(c)
          /\ d_pc' = [d_pc EXCEPT ![c] = "lock"]
          /\ UNCHANGED d_err
       \/ /\ DevFatal(c, "noclient")
          /\ UNCHANGED d_started
       \/ /\ DevFatal(c, "start")
          /\ UNCHANGED d_started
    /\ UNCHANGED <<d_mu, d_seqs, d_idx, d_seen, d_opts, d_peers, d_got, d_deploys, d_wl>>
    /\ Called(c, "AddProposerNode")
    /\ UNCHANGED d_inlock
    /\ UNCHANGED notDev

\* AddProverNode: the check of d.clients.Prover; addWhitelist up to
\* taikoL1.WhitelistProver, whose error AddProverNode answers with Fatalf
AddProverNode_Whitelist(c) ==
    /\ d_pc[c] = "start"
    /\ d_op' = [d_op EXCEPT ![c] = "AddProverNode"]
    /\ \/ /\ d_pc' = [d_pc EXCEPT ![c] = "receipt"]
          /\ UNCHANGED <<d_err, d_wl>>
       \/ /\ DevFatal(c, "noclient")
          /\ UNCHANGED d_wl
       \/ /\ d_wl' = [d_wl EXCEPT ![c] = "senderr"]
          /\ DevFatal(c, "whitelist")
    /\ UNCHANGED <<d_mu, d_seqs, d_idx, d_seen, d_opts, d_peers, d_got, d_started,
                   d_deploys>>
    /\ Called(c, "AddProverNode")
    /\ UNCHANGED d_inlock
    /\ UNCHANGED notDev

\* mutant: the status of the receipt is not looked at
ReceiptRejected_Never(status) == FALSE

\* `receipt.Status != types.ReceiptStatusSuccessful`
ReceiptRejected(status) == status # 1

\* addWhitelist: rpc.WaitReceipt and the check of the receipt's status
addWhitelist_Receipt(c) ==
    /\ d_pc[c] = "receipt"
    /\ \/ /\ d_wl' = [d_wl EXCEPT ![c] = "waiterr"]
          /\ DevFatal(c, "whitelist")
       \/ \E status \in Statuses :
             /\ d_wl' = [d_wl EXCEPT ![c] = IF status = 1 THEN "success" ELSE "failed"]
             /\ IF ReceiptRejected(status)
                THEN DevFatal(c, "whitelist")
                ELSE /\ d_pc' = [d_pc EXCEPT ![c] = "pvstart"]
                     /\ UNCHANGED d_err
    /\ UNCHANGED <<d_mu, d_seqs, d_op, d_idx, d_seen, d_opts, d_peers, d_got, d_started,
                   d_deploys>>
    /\ UNCHANGED <<d_calls, d_inlock>>
    /\ UNCHANGED notDev

\* AddProverNode: StartClient
AddProverNode_Start(c) ==
    /\ d_pc[c] = "pvstart"
    /\ \/ /\ DevStarted(c)
          /\ d_pc' = [d_pc EXCEPT ![c] = "lock"]
          /\ UNCHANGED d_err
       \/ /\ DevFatal(c, "start")
          /\ UNCHANGED d_started
    /\ UNCHANGED <<d_mu, d_seqs, d_op, d_idx, d_seen, d_opts, d_peers, d_got, d_deploys,
                   d_wl>>
    /\ UNCHANGED <<d_calls, d_inlock>>
    /\ UNCHANGED notDev

\* the d.Lock() in front of the append, in each Add operation
Add_Lock(c) ==
    /\ d_pc[c] = "lock"
    /\ MuFree(d_mu)
    /\ d_mu' = c
    /\ d_pc' = [d_pc EXCEPT ![c] = "locked"]
    /\ UNCHANGED <<d_seqs, d_op, d_idx, d_seen, d_opts, d_peers, d_got, d_err, d_started,
                   d_deploys, d_wl>>
    /\ UNCHANGED <<d_calls, d_inlock>>
    /\ UNCHANGED notDev

\* mutant: the node is put in front of the sequence
Add_Append_InFront(c) ==
    /\ d_pc[c] = "locked"
    /\ d_seqs' = [d_seqs EXCEPT ![RoleOf(d_op[c])] = <<c>> \o @]
    /\ d_mu' = 0
    /\ d_pc' = [d_pc EXCEPT ![c] = "returned"]
    /\ UNCHANGED <<d_op, d_idx, d_seen, d_opts, d_peers, d_got, d_err, d_started,
                   d_deploys, d_wl>>
    /\ InLock(c, {"append"})
    /\ UNCHANGED d_calls
    /\ UNCHANGED notDev

\* the append to the sequence of the role, the deferred d.Unlock() and the
\* return of the node
Add_Append(c) ==
    /\ d_pc[c] = "locked"
    /\ d_seqs' = [d_seqs EXCEPT ![RoleOf(d_op[c])] = Append(@, c)]
    /\ d_mu' = 0
    /\ d_pc' = [d_pc EXCEPT ![c] = "returned"]
    /\ UNCHANGED <<d_op, d_idx, d_seen, d_opts, d_peers, d_got, d_err, d_started,
                   d_deploys, d_wl>>
    /\ InLock(c, {"append"})
    /\ UNCHANGED d_calls
    /\ UNCHANGED notDev

\* the callers that hold the lock and are writing to the sequence role
Appending(role) ==
    {c \in DevCallers : d_pc[c] = "locked" /\ RoleOf(d_op[c]) = role}

\* GetL1ELNode and GetL2ELNode read the sequence without the lock. A read
\* that runs while an append writes the slice is a data race: the length
\* read is the one before or after the append
LenRead(role) ==
    IF Appending(role) = {}
    THEN {Len(d_seqs[role])}
    ELSE {Len(d_seqs[role]), Len(d_seqs[role]) + 1}

\* and the element read is the element or, the pointer and the length of the
\* slice not belonging together, something else
ElemRead(role, idx) ==
    IF Appending(role) = {}
    THEN {d_seqs[role][idx + 1]}
    ELSE {Torn} \cup (IF idx < Len(d_seqs[role])
                      THEN {d_seqs[role][idx + 1]}
                      ELSE Appending(role))

\* `idx < 0 || idx >= len(d.l1Engines)`
OutOfRange(idx, len) == idx < 0 \/ idx >= len

\* GetL1ELNode / GetL2ELNode: the check of idx and Fatalf
GetELNode_Check(c) ==
    /\ d_pc[c] = "start"
    /\ \E op \in Gets, idx \in Idxs :
          /\ d_op' = [d_op EXCEPT ![c] = op]
          /\ d_idx' = [d_idx EXCEPT ![c] = idx]
          /\ \E len \in LenRead(RoleOf(op)) :
                IF OutOfRange(idx, len)
                THEN DevFatal(c, "index")
                ELSE /\ d_pc' = [d_pc EXCEPT ![c] = "read"]
                     /\ UNCHANGED d_err
    /\ UNCHANGED <<d_mu, d_seqs, d_seen, d_opts, d_peers, d_got, d_started, d_deploys,
                   d_wl>>
    /\ UNCHANGED <<d_calls, d_inlock>>
    /\ UNCHANGED notDev

\* GetL1ELNode / GetL2ELNode: `return d.l1Engines[idx]`
GetELNode_Read(c) ==
    /\ d_pc[c] = "read"
    /\ \E n \in ElemRead(RoleOf(d_op[c]), d_idx[c]) : d_got' = [d_got EXCEPT ![c] = n]
    /\ d_pc' = [d_pc EXCEPT ![c] = "returned"]
    /\ UNCHANGED <<d_mu, d_seqs, d_op, d_idx, d_seen, d_opts, d_peers, d_err, d_started,
                   d_deploys, d_wl>>
    /\ UNCHANGED <<d_calls, d_inlock>>
    /\ UNCHANGED notDev

\* one step of an Add operation
AddNode(c) ==
    \/ AddL1ELNode_Start(c)
    \/ deployL1Contracts(c)
    \/ AddL2ELNode_Lock(c)
    \/ AddL2ELNode_Collect(c)
    \/ AddL2ELNode_Start(c)
    \/ AddDriverNode_Start(c)
    \/ AddProposerNode_Start(c)
    \/ AddProverNode_Whitelist(c)
    \/ addWhitelist_Receipt(c)
    \/ AddProverNode_Start(c)
    \/ Add_Lock(c)
    \/ Add_Append(c)

\* one step of GetL1ELNode or GetL2ELNode
GetELNode(c) ==
    \/ GetELNode_Check(c)
    \/ GetELNode_Read(c)

(***************************************************************************)
(* runAllTests of the rpc simulator: the adapting of the test list         *)
(***************************************************************************)
\* "http/BalanceAndNonceAt" and the like: the characters up to the '/', and
\* the rest of the name
NameOf(prefix, rest) == prefix \o <<"/", rest>>

Http == <<"h", "t", "t", "p">>

Ws == <<"w", "s">>

\* entries of the list `tests`
TestEntries ==
    {[Name |-> NameOf(Http, "BalanceAndNonceAt"), Run |-> "balanceAndNonceAtTest"],
     [Name |-> NameOf(Http, "CanonicalChain"), Run |-> "canonicalChainTest"],
     [Name |-> NameOf(Ws, "BalanceAndNonceAt"), Run |-> "balanceAndNonceAtTest"],
     [Name |-> NameOf(Ws, "CanonicalChain"), Run |-> "canonicalChainTest"]}

\* the zero value of testSpec
NoEntry == [Name |-> <<>>, Run |-> "nil"]

\* an adapted test that RunTests has not run
NotRun == [via |-> "none", body |-> "nil"]

\* the variables `test` a loop of n iterations can make: 0 is the variable of
\* the whole loop, i the one of iteration i
TestVars == 0..MaxTests

\* the state after `adaptedTests := make([]*taiko.TestSpec, len(tests))`,
\* for a list of some entries of `tests`
AdaptInit ==
    /\ \E n \in 1..MaxTests : a_tests \in [1..n -> TestEntries]
    /\ a_perIter \in BOOLEAN
    /\ a_pc = "loop"
    /\ a_i = 0
    /\ a_test = [v \in TestVars |-> NoEntry]
    /\ a_adapted = <<>>
    /\ a_ran = [i \in 1..MaxTests |-> NotRun]

\* runAllTests is not running
NoAdapt ==
    /\ a_tests = <<>>
    /\ a_perIter = FALSE
    /\ a_pc = "returned"
    /\ a_i = 0
    /\ a_test = [v \in TestVars |-> NoEntry]
    /\ a_adapted = <<>>
    /\ a_ran = [i \in 1..MaxTests |-> NotRun]

\* the variable `test` that iteration i of `for i, test := range tests`
\* assigns and that a closure made in iteration i closes over
LoopVar(i, perIter) == IF perIter THEN i ELSE 0

\* fmt.Sprintf("%s (%s)", test.Name, "taiko-l2")
Sprintf(name, client) == name \o <<" (", client, ")">>

\* one iteration of the loop: `test` gets a copy of the next entry,
\* adaptedTests[i] its Name, built now, and the closure, run later
Adapt_Iterate ==
    /\ a_pc = "loop"
    /\ a_i < Len(a_tests)
    /\ LET v == LoopVar(a_i + 1, a_perIter) IN
       /\ a_test' = [a_test EXCEPT ![v] = a_tests[a_i + 1]]
       /\ a_adapted' = Append(a_adapted,
                              [Name |-> Sprintf(a_tests[a_i + 1].Name, "taiko-l2"),
                               test |-> v])
    /\ a_i' = a_i + 1
    /\ UNCHANGED <<a_tests, a_perIter, a_pc, a_ran>>
    /\ UNCHANGED notAdapt

\* the loop is over and taiko.RunTests is called with adaptedTests
Adapt_RunTests ==
    /\ a_pc = "loop"
    /\ a_i = Len(a_tests)
    /\ a_pc' = "run"
    /\ UNCHANGED <<a_tests, a_perIter, a_i, a_test, a_adapted, a_ran>>
    /\ UNCHANGED notAdapt

\* strings.IndexByte(s, c), here 1-based; 0 for Go's -1
IndexByte(s, c) ==
    IF \E k \in 1..Len(s) : s[k] = c
    THEN CHOOSE k \in 1..Len(s) : s[k] = c /\ \A j \in 1..(k - 1) : s[j] # c
    ELSE 0

\* test.Name[:strings.IndexByte(test.Name, '/')]
Prefix(name) == SubSeq(name, 1, IndexByte(name, "/") - 1)

\* the switch of the closure: what it calls for a test entry
Dispatch(test) ==
    CASE Prefix(test.Name) = Http -> [via |-> "RunHTTP", body |-> test.Run]
      [] Prefix(test.Name) = Ws -> [via |-> "RunWS", body |-> test.Run]
      [] OTHER -> [via |-> "panic", body |-> "nil"]

\* RunTests calls test.Run(t, env) of adaptedTests[i] in a goroutine of its
\* own: the closure reads the variable `test` it closed over
Adapt_Run(i) ==
    /\ a_pc = "run"
    /\ i \in 1..Len(a_adapted)
    /\ a_ran[i] = NotRun
    /\ a_ran' = [a_ran EXCEPT ![i] = Dispatch(a_test[a_adapted[i].test])]
    /\ UNCHANGED <<a_tests, a_perIter, a_pc, a_i, a_test, a_adapted>>
    /\ UNCHANGED notAdapt

(***************************************************************************)
(* Specifications                                                          *)
(***************************************************************************)
\* a RunTests that was never called
NoRunTests ==
    /\ r_n = 0
    /\ r_conc = 1
    /\ r_ctx = FALSE
    /\ r_main = "returned"
    /\ r_spawned = 0
    /\ r_done = 0
    /\ s_cur = 0
    /\ s_waiters = <<>>
    /\ s_ready = {}
    /\ g_pc = [i \in Tests |-> "none"]
    /\ g_held = [i \in Tests |-> 0]
    /\ g_fail = [i \in Tests |-> FALSE]
    /\ e_last = [i \in Tests |-> 0]
    /\ e_cancelled = [i \in Tests |-> {}]

\* a Vault nobody calls
NoCallers ==
    /\ v_mu = 0
    /\ v_nonce = InitialNonce
    /\ v_accounts = [a \in Addrs |-> 0]
    /\ v_pc = [t \in Callers |-> "returned"]
    /\ v_local = [t \in Callers |-> -1]
    /\ v_tx = [t \in Callers |-> -1]
    /\ v_polls = [t \in Callers |-> 0]
    /\ v_ans = [t \in Callers |-> NoAnswer]
    /\ v_built = <<>>
    /\ v_sent = <<>>
    /\ NoKeyCalls

\* no call of a wait helper
NoWaiters ==
    /\ w_kind = [w \in Waiters |-> "WaitBlock"]
    /\ w_arg = [w \in Waiters |-> 0]
    /\ w_ctx = [w \in Waiters |-> FALSE]
    /\ w_pc = [w \in Waiters |-> "done"]
    /\ w_ret = [w \in Waiters |-> "none"]
    /\ w_receipt = [w \in Waiters |-> -1]
    /\ w_err = [w \in Waiters |-> "nil"]
    /\ w_last = [w \in Waiters |-> "none"]
    /\ w_val = [w \in Waiters |-> -1]
    /\ w_cause = [w \in Waiters |-> "none"]

\* a Devnet nobody calls
NoDevnet == EmptyDevnet /\ DevCallsIn("returned")

VaultInit == NewVault /\ NoRunTests /\ NoWaiters /\ NoDevnet /\ NoAdapt

VaultNext ==
    \/ \E t \in Callers : CreateAccount(t)
    \/ \E t \in Callers : KeyCall(t)

VaultSpec == VaultInit /\ [][VaultNext]_vars

SchedInit == RunTestsInit /\ NoCallers /\ NoWaiters /\ NoDevnet /\ NoAdapt

SchedNext ==
    \/ \E i \in Tests : TestGoroutine(i)
    \/ RunTests
    \/ CancelCtx

SchedSpec == SchedInit /\ [][SchedNext]_vars

\* the Go scheduler runs every goroutine that can take a step
SchedFairSpec ==
    /\ SchedSpec
    /\ \A i \in Tests : WF_vars(TestGoroutine(i))
    /\ WF_vars(RunTests)

\* RunTests itself always gets to run; its test goroutines may be slow,
\* blocked or stuck for ever
SchedMainFairSpec == SchedSpec /\ WF_vars(RunTests)

WaitSpecInit == WaitInit /\ NoCallers /\ NoRunTests /\ NoDevnet /\ NoAdapt

WaitNext ==
    \/ \E w \in Waiters : WaitStep(w)
    \/ \E w \in Waiters : WaitDelivery(w)
    \/ \E w \in Waiters : WaitCancel(w)

WaitSpec == WaitSpecInit /\ [][WaitNext]_vars

\* The Go scheduler runs a helper that can take a step: a sleep and a tick
\* end, an RPC returns, and a select whose only ready case is ctx.Done()
\* takes it. What the endpoint delivers to a subscription is not forced.
WaitFairSpec == WaitSpec /\ \A w \in Waiters : WF_vars(WaitStep(w))

DevnetSpecInit == DevnetInit /\ NoCallers /\ NoRunTests /\ NoWaiters /\ NoAdapt

DevnetNext ==
    \/ \E c \in DevCallers : AddNode(c)
    \/ \E c \in DevCallers : GetELNode(c)

DevnetSpec == DevnetSpecInit /\ [][DevnetNext]_vars

AdaptSpecInit == AdaptInit /\ NoCallers /\ NoRunTests /\ NoWaiters /\ NoDevnet

AdaptNext ==
    \/ Adapt_Iterate
    \/ Adapt_RunTests
    \/ \E i \in 1..MaxTests : Adapt_Run(i)

AdaptSpec == AdaptSpecInit /\ [][AdaptNext]_vars

(***************************************************************************)
(* Properties                                                              *)
(***************************************************************************)

\* C1: the nonces issued to concurrent CreateAccount calls are pairwise
\* distinct and form a contiguous increasing run that starts at the value the
\* counter had before the calls.
C1_NoncesContiguous ==
    /\ \A k \in 1..Len(v_built) : v_built[k] = InitialNonce + k - 1
    /\ \A t, u \in Callers :
          (t # u /\ v_tx[t] # -1 /\ v_tx[u] # -1) => v_tx[t] # v_tx[u]

\* every caller holds a nonce, and the callers did not get them in their order
C1_Witness ==
    /\ \A t \in Callers : v_tx[t] # -1
    /\ v_tx[1] > v_tx[2]

\* C2: the nonce counter equals its initial value plus the number of funding
\* transactions built so far, failed broadcasts included, and the nonce of a
\* failed broadcast belongs to no other funding transaction.
C2_NonceNeverRolledBack ==
    /\ v_nonce = InitialNonce + Len(v_built)
    /\ \A k \in 1..Len(v_sent) :
          ~v_sent[k].ok =>
             Cardinality({j \in 1..Len(v_built) : v_built[j] = v_sent[k].nonce}) = 1

\* a broadcast failed, and a funding transaction with a later nonce was built
C2_Witness ==
    \E t, u \in Callers :
       /\ v_pc[t] = "fatal_send"
       /\ v_tx[u] > v_tx[t]
       /\ v_nonce = InitialNonce + NumCallers

\* the tests whose body is executing
Running == {i \in Tests : g_pc[i] = "run"}

\* C3: at no time are more than Concurrency test bodies executing.
C3_AtMostNRunning == Cardinality(Running) <= r_conc

\* a body executes while another test waits for a permit
C3_Witness ==
    /\ Cardinality(Running) >= 1
    /\ \E i \in Tests : g_pc[i] \in {"wait1", "wait2"} /\ i \notin s_ready

\* the tests that passed the Acquire in front of their TestEnv and have not
\* completed
Admitted == {i \in Tests : g_pc[i] \in {"acq2", "wait2", "run", "send", "release"}}

\* the goroutines of all tests have ended
AllCompleted == \A i \in 1..r_n : g_pc[i] = "exited"

\* C4: every admitted test holds exactly one permit, nobody else holds one,
\* and all permits are free once every test has completed.
C4_OnePermitPerTest ==
    /\ \A i \in Tests : g_held[i] = IF i \in Admitted THEN 1 ELSE 0
    /\ s_cur = Cardinality(Admitted) + Cardinality(s_ready)
    /\ AllCompleted => s_cur = 0

\* C5: with a parent context that is never cancelled and test bodies that
\* end, RunTests returns in the end.
C5_RunTestsReturns == <>(r_ctx \/ r_main = "returned")

\* the WaitReceipt calls
Receipts == {w \in Waiters : w_kind[w] = "WaitReceipt"}

\* C6: a WaitReceipt whose queries never found the receipt ends only after
\* its ctx is done, with a nil receipt and the error of the ctx.
C6_NeverLandedEndsAtDeadline ==
    \A w \in Receipts :
       (w_pc[w] = "done" /\ w_last[w] \in {"notfound", "ctx"}) =>
          /\ w_ctx[w]
          /\ w_ret[w] = "return"
          /\ w_receipt[w] = -1
          /\ w_err[w] = "ctx"

\* a WaitReceipt ended in its select after a "not found"
C6_Witness ==
    \E w \in Receipts : w_pc[w] = "done" /\ w_last[w] = "notfound" /\ w_ctx[w]

\* C7: a WaitReceipt whose transaction landed returns the receipt; with a
\* status error when the status is not the expected one, else with no error.
C7_ReceiptWithStatusError ==
    \A w \in Receipts :
       (w_pc[w] = "done" /\ w_last[w] = "receipt") =>
          /\ w_ret[w] = "return"
          /\ w_receipt[w] = w_val[w]
          /\ w_receipt[w] # -1
          /\ w_val[w] # w_arg[w] => w_err[w] = "status"
          /\ w_val[w] = w_arg[w] => w_err[w] = "nil"

\* one WaitReceipt ended on a receipt of the wrong status, one on the right
C7_Witness ==
    \E w, x \in Receipts :
       /\ w_pc[w] = "done" /\ w_last[w] = "receipt" /\ w_val[w] # w_arg[w]
       /\ w_pc[x] = "done" /\ w_last[x] = "receipt" /\ w_val[x] = w_arg[x]

\* C8: WaitReceipt polls again after "not found" and never returns it; any
\* other error of the query ends the call at once with a nil receipt.
C8_NotFoundRetriedOthersFatal ==
    \A w \in Receipts :
       /\ w_err[w] # "notfound"
       /\ w_last[w] = "notfound" =>
             \/ w_pc[w] \in {"select", "poll"}
             \/ w_pc[w] = "done" /\ w_err[w] = "ctx" /\ w_receipt[w] = -1
       /\ w_last[w] = "rpc" =>
             /\ w_pc[w] = "done"
             /\ w_ret[w] = "return"
             /\ w_receipt[w] = -1
             /\ w_err[w] = "rpc"

\* one WaitReceipt is about to poll again after "not found", another ended
\* on an error of the query
C8_Witness ==
    \E w, x \in Receipts :
       /\ w_pc[w] = "poll" /\ w_last[w] = "notfound"
       /\ w_pc[x] = "done" /\ w_last[x] = "rpc"

\* C9: once its ctx is done, every wait helper ends.
C9_CancelledWaitsEnd == \A w \in Waiters : w_ctx[w] ~> (w_pc[w] = "done")

\* two helpers of different kinds both ended because their ctx was done
C9_Witness ==
    /\ \A w \in Waiters : w_ctx[w] /\ w_pc[w] = "done" /\ w_cause[w] = "cancel"
    /\ w_kind[1] # w_kind[2]

\* what the caller of a wait helper observes
Outcome(w) == <<w_ret[w], w_receipt[w], w_err[w]>>

\* C10: a wait ended by its ctx gives its caller an outcome that no wait of
\* the same helper gives when it is satisfied or when it meets a hard error.
C10_CancelDistinguishable ==
    \A w, x \in Waiters :
       (/\ w_kind[w] = w_kind[x]
        /\ w_pc[w] = "done" /\ w_cause[w] = "cancel"
        /\ w_pc[x] = "done" /\ w_cause[x] \in {"satisfied", "error"})
       => Outcome(w) # Outcome(x)

\* the contexts the TestEnv of test i has issued
Issued(i) == 1..e_last[i]

\* the issued contexts whose CancelFunc has not been called
Live(i) == Issued(i) \ e_cancelled[i]

\* C15: every context a TestEnv issued before its most recent one has been
\* cancelled, so at most one issued context is live.
C15_PreviousCancelled ==
    \A i \in Tests :
       /\ \A c \in Issued(i) : c # e_last[i] => c \in e_cancelled[i]
       /\ Cardinality(Live(i)) <= 1

\* a TestEnv issued a second context: the first is cancelled, the second live
C15_Witness ==
    \E i \in Tests : g_pc[i] = "run" /\ e_last[i] = 2 /\ Live(i) = {2}

\* C16: a Ctx/TimeoutCtx call of one test neither cancels nor replaces a
\* context of the TestEnv of another test.
C16_OwnContextSlot ==
    [][\A i \in Tests :
          TimeoutCtx(i) =>
             \A j \in Tests \ {i} :
                e_last'[j] = e_last[j] /\ e_cancelled'[j] = e_cancelled[j]]_vars

\* two tests run at once; one has renewed its context, the context of the
\* other is still live
C16_Witness ==
    \E i, j \in Tests :
       /\ i # j
       /\ g_pc[i] = "run" /\ g_pc[j] = "run"
       /\ e_last[i] = 2
       /\ e_last[j] = 1 /\ Live(j) = {1}

\* the tests whose Run closure is over
Finished == {i \in Tests : g_pc[i] \in {"send", "release", "exited"}}

\* C17: when a test has finished, by a normal return or by a failure, the
\* most recent context of its TestEnv has been cancelled.
C17_NoContextLeak == \A i \in Finished : Live(i) = {}

\* C18: once the parent context is done, RunTests returns, whatever its test
\* goroutines do.
C18_ReturnsOnCancel == r_ctx ~> (r_main = "returned")

\* RunTests returned on the done context while a test was running and another
\* was waiting for a permit
C18_Witness ==
    /\ r_ctx
    /\ r_main = "returned"
    /\ r_done < r_n
    /\ \E i, j \in Tests : g_pc[i] = "run" /\ g_pc[j] \in {"wait1", "wait2"}

\* the callers whose GenerateKey has returned its address
Generated ==
    {t \in Callers : v_op[t] \in {"CreateAccount", "GenerateKey"}
                      /\ v_pc[t] \notin {"start", "gk_locked"}}

\* the callers whose InsertKey has returned
Inserted == {t \in Callers : v_op[t] = "InsertKey" /\ v_pc[t] = "returned"}

\* the callers whose FindKey has returned (by itself or in SignTransaction)
Looked == {t \in Callers : v_found[t] # -1}

\* C19: an address in Vault.accounts stays there with the same key; the key
\* of every returned GenerateKey and InsertKey is in the map under its
\* address; and FindKey returns the key of the address it was asked for,
\* never nil for an address that was in the map when it began.
C19_KeysArePermanent ==
    /\ [][\A a \in Addrs : v_accounts[a] # 0 => v_accounts'[a] = v_accounts[a]]_vars
    /\ [](\A t \in Generated : v_accounts[PubkeyToAddress(KeyOf(t))] = KeyOf(t))
    /\ [](\A t \in Inserted : v_accounts[PubkeyToAddress(v_arg[t])] = v_arg[t])
    /\ [](\A t \in Looked :
             /\ v_had[t] => v_found[t] # 0
             /\ v_found[t] # 0 => PubkeyToAddress(v_found[t]) = v_arg[t])

\* a FindKey returned the key another caller generated
C19_Witness ==
    \E t \in Looked, u \in Generated :
       /\ v_op[t] = "FindKey"
       /\ v_pc[t] = "returned"
       /\ v_had[t]
       /\ v_found[t] = KeyOf(u)

\* the callers whose SignTransaction has returned
Signed == {t \in Callers : v_op[t] = "SignTransaction" /\ v_pc[t] = "returned"}

\* C20: SignTransaction of an address that was never put in the Vault returns
\* no transaction and the unknown-account error; of an address the Vault held
\* when the call began it does not return that error; and no step of it
\* changes Vault.accounts or Vault.nonce.
C20_UnknownAccount ==
    /\ [](\A t \in Signed :
             /\ v_accounts[v_arg[t]] = 0 => v_out[t] = <<0, "unknown">>
             /\ v_had[t] => v_out[t][2] # "unknown")
    /\ [][\A t \in Callers :
             (FindKey_Lock(t) \/ FindKey_Read(t) \/ SignTransaction_Sign(t))
                => UNCHANGED <<v_accounts, v_nonce>>]_vars

\* a SignTransaction failed with the unknown-account error while the Vault
\* held the key of another address
C20_Witness ==
    \E t \in Signed, u \in Generated :
       /\ v_out[t] = <<0, "unknown">>
       /\ v_accounts[v_arg[t]] = 0
       /\ v_accounts[PubkeyToAddress(KeyOf(u))] = KeyOf(u)

\* the nodes in the sequence of a role
InSeq(role) == {d_seqs[role][i] : i \in 1..Len(d_seqs[role])}

\* the callers of an operation
Calling(op) == {c \in DevCallers : d_op[c] = op}

\* C11: the contracts are deployed at most once per L1 engine; every engine
\* in l1Engines had exactly one deployment, a successful one; and after a
\* failed deployment AddL1ELNode is fatal and does not append the engine.
C11_DeployedOnceBeforeAppend ==
    /\ \A n \in Nodes : Len(d_deploys[n]) <= 1
    /\ \A n \in InSeq("l1Engines") : d_deploys[n] = <<(<<"nil", 0>>)>>
    /\ \A c \in DevCallers :
          (d_deploys[c] # <<>> /\ d_deploys[c][1] # <<"nil", 0>>) =>
             /\ d_pc[c] = "fatal"
             /\ c \notin InSeq("l1Engines")

\* one engine was appended after its deployment, and the deployment against
\* another ended with a non-zero exit code
C11_Witness ==
    \E c, x \in Calling("AddL1ELNode") :
       /\ c \in InSeq("l1Engines")
       /\ d_pc[c] = "returned"
       /\ d_deploys[x] = <<(<<"nil", 1>>)>>

\* C12: a prover is started, and appended to provers, only after its
\* whitelist transaction got a successful receipt; when the transaction
\* cannot be sent, the wait for its receipt fails or the receipt is not
\* successful, AddProverNode is fatal, and the prover is neither started nor
\* appended.
C12_WhitelistBeforeProver ==
    /\ \A n \in InSeq("provers") : d_wl[n] = "success" /\ d_started[n]
    /\ \A c \in Calling("AddProverNode") :
          /\ d_started[c] => d_wl[c] = "success"
          /\ d_wl[c] \in {"senderr", "waiterr", "failed"} =>
                /\ d_pc[c] = "fatal"
                /\ ~d_started[c]
                /\ c \notin InSeq("provers")

\* one prover was whitelisted, started and appended; the whitelist
\* transaction of another got a receipt that is not successful
C12_Witness ==
    \E c, x \in Calling("AddProverNode") :
       /\ c \in InSeq("provers")
       /\ d_wl[c] = "success"
       /\ d_wl[x] = "failed"

\* s is t or the beginning of t
IsPrefix(s, t) == Len(s) <= Len(t) /\ SubSeq(t, 1, Len(s)) = s

\* the callers whose GetL1ELNode / GetL2ELNode has returned a node
Got == {c \in DevCallers : d_op[c] \in Gets /\ d_pc[c] = "returned"}

\* C13: no step removes, reorders or replaces an entry of a node sequence,
\* and the node GetL1ELNode(i) or GetL2ELNode(i) has returned is the node at
\* index i of the sequence, whatever Add operations ran during the read.
C13_AppendOnlyStable ==
    /\ [][\A r \in Roles : IsPrefix(d_seqs[r], d_seqs'[r])]_vars
    /\ [](\A c \in Got :
             d_idx[c] < Len(d_seqs[RoleOf(d_op[c])]) =>
                d_got[c] = d_seqs[RoleOf(d_op[c])][d_idx[c] + 1])

\* the callers whose AddL2ELNode has started its engine
L2Started == {c \in Calling("AddL2ELNode") : d_started[c]}

Creating == {t \in Callers : v_op[t] = "CreateAccount"}

\* the funding transaction of t was broadcast, with success or not
Broadcast(t, ok) ==
    \E k \in 1..Len(v_sent) : v_sent[k] = [nonce |-> v_tx[t], ok |-> ok]

\* C21: CreateAccount returns only after a poll was answered with the receipt
\* of its own funding transaction, whose broadcast succeeded; it makes at most
\* 60 polls; "not found" ends the loop only as the answer to the 60th poll,
\* and then fatally; any other error of a poll is fatal, and so is a failed
\* broadcast, after which no poll is made.
C21_ReceiptBeforeReturn ==
    \A t \in Creating :
       /\ v_polls[t] <= PollBudget
       /\ v_pc[t] = "returned" =>
             /\ v_tx[t] # -1
             /\ v_ans[t] = [hash |-> v_tx[t], ans |-> "receipt"]
             /\ Broadcast(t, TRUE)
       /\ v_ans[t].ans = "notfound" =>
             v_pc[t] = "fatal_timeout" /\ v_polls[t] = PollBudget
       /\ v_pc[t] = "fatal_timeout" => v_ans[t].ans = "notfound"
       /\ v_ans[t].ans = "rpcerr" => v_pc[t] = "fatal_rpc"
       /\ Broadcast(t, FALSE) => v_pc[t] = "fatal_send" /\ v_polls[t] = 0

\* one caller got its receipt with the 60th poll, another timed out after 60
C21_Witness ==
    \E t, u \in Creating :
       /\ v_pc[t] = "returned"
       /\ v_polls[t] = PollBudget
       /\ v_pc[u] = "fatal_timeout"
       /\ v_polls[u] = PollBudget

\* the callers of either WaitBlock
Blocks == {w \in Waiters : w_kind[w] \in {"WaitBlock", "WaitBlockErr"}}

\* C22: WaitBlock returns nil exactly on a polled height that is not below
\* the target and goes on polling after a height below it; an error of
\* client.BlockNumber ends the call at once with that error (returned by the
\* WaitBlock of devnet.go, failing the test in the one of helper.go), and no
\* call that has ended polls again.
C22_ReturnsAtHeight ==
    /\ [](\A w \in Blocks :
             /\ (w_pc[w] = "done" /\ w_ret[w] = "return" /\ w_err[w] = "nil") =>
                   w_last[w] = "height" /\ w_val[w] >= w_arg[w]
             /\ (w_last[w] = "height" /\ w_val[w] >= w_arg[w]) =>
                   w_pc[w] = "done" /\ w_ret[w] = "return" /\ w_err[w] = "nil"
             /\ (w_last[w] = "height" /\ w_val[w] < w_arg[w]) =>
                   w_pc[w] \in {"sleep", "poll"} /\ w_ret[w] = "none"
             /\ w_last[w] \in {"rpc", "ctx"} =>
                   /\ w_pc[w] = "done"
                   /\ w_err[w] = w_last[w]
                   /\ w_ret[w] = IF w_kind[w] = "WaitBlock" THEN "fatal" ELSE "return")
    /\ [][\A w \in Blocks :
             w_pc[w] = "done" =>
                /\ w_last'[w] = w_last[w]
                /\ w_val'[w] = w_val[w]
                /\ w_ret'[w] = w_ret[w]
                /\ w_err'[w] = w_err[w]]_vars

\* one WaitBlock returned on a height above its target, the other WaitBlock
\* returned the error of its query
C22_Witness ==
    \E w, x \in Blocks :
       /\ w_pc[w] = "done" /\ w_ret[w] = "return" /\ w_err[w] = "nil"
       /\ w_arg[w] > 0 /\ w_val[w] > w_arg[w]
       /\ w_kind[x] = "WaitBlockErr" /\ w_ret[x] = "return" /\ w_err[x] = "rpc"

\* the callers of WaitNewHead
NewHeads == {w \in Waiters : w_kind[w] = "WaitNewHead"}

\* C23: WaitNewHead returns exactly when a delivered head is at or above the
\* target, at once; after a head below the target it is still waiting, unless
\* its ctx ended the test; an error of the subscription, and a ctx that is
\* done before such a head, end the test and are never a normal return.
C23_ReturnsOnHead ==
    \A w \in NewHeads :
       /\ w_ret[w] \in {"none", "return", "fatal"}
       /\ w_ret[w] = "return" <=> (w_last[w] = "head" /\ w_val[w] >= w_arg[w])
       /\ w_ret[w] = "return" => w_pc[w] = "done" /\ w_cause[w] = "satisfied"
       /\ (w_last[w] = "head" /\ w_val[w] < w_arg[w]) =>
             \/ w_pc[w] = "loop"
             \/ w_pc[w] = "done" /\ w_ret[w] = "fatal" /\ w_cause[w] = "cancel"
       /\ w_last[w] = "sub" => w_pc[w] = "done" /\ w_ret[w] = "fatal"
       /\ w_cause[w] \in {"cancel", "error", "nosub"} =>
             w_pc[w] = "done" /\ w_ret[w] = "fatal"
       /\ w_cause[w] = "cancel" => w_ctx[w]

\* one WaitNewHead returned on a head above its target; the ctx of the other
\* ended the test after a head below the target
C23_Witness ==
    \E w, x \in NewHeads :
       /\ w_ret[w] = "return" /\ w_arg[w] > 0 /\ w_val[w] > w_arg[w]
       /\ w_last[x] = "head" /\ w_val[x] < w_arg[x]
       /\ w_ret[x] = "fatal" /\ w_cause[x] = "cancel"

\* the callers of WaitProveEvent that asked for one block
ProveWaits == {w \in Waiters : w_kind[w] = "WaitProveEvent" /\ w_arg[w] # 0}

\* C24: WaitProveEvent returns when the BlockProven event of the block its
\* caller asked for is delivered; an event of another block leaves it
\* waiting; an error of the subscription ends the test.
C24_MatchingEventEnds ==
    \A w \in ProveWaits :
       /\ (w_last[w] = "event" /\ w_val[w] = w_arg[w]) =>
             w_pc[w] = "done" /\ w_ret[w] = "return"
       /\ (w_last[w] = "event" /\ w_val[w] # w_arg[w]) =>
             \/ w_pc[w] = "loop"
             \/ w_pc[w] = "done" /\ w_cause[w] = "cancel"
       /\ w_last[w] = "sub" => w_pc[w] = "done" /\ w_ret[w] = "fatal"

\* c made its call of an Add operation before x made its own
CalledBefore(c, x) ==
    \E i, j \in 1..Len(d_calls) : i < j /\ d_calls[i].who = c /\ d_calls[j].who = x

\* the index of node n in the sequence of the role
IndexOf(role, n) == CHOOSE i \in 1..Len(d_seqs[role]) : d_seqs[role][i] = n

\* C25: of two nodes of one sequence, the one whose Add call was made first
\* has the lower index, also when the calls overlapped.
C25_AppendOrderIsCallOrder ==
    \A r \in Roles :
       \A c, x \in InSeq(r) \cap DevCallers :
          CalledBefore(c, x) => IndexOf(r, c) < IndexOf(r, x)

\* the nodes that were in the sequence x is appended to when x made its call
HadAtCall(x) ==
    LET i == CHOOSE k \in 1..Len(d_calls) : d_calls[k].who = x IN d_calls[i].had

\* C25 as amended: a node that was in the sequence when the Add call of
\* another node of the sequence was made has the lower index of the two.
C25_ReturnedBeforeCalled ==
    \A r \in Roles :
       \A x \in InSeq(r) \cap DevCallers :
          \A c \in HadAtCall(x) :
             c \in InSeq(r) /\ IndexOf(r, c) < IndexOf(r, x)

\* a node was added by a call made after the Add call of another node of
\* its sequence had returned
C25_Witness ==
    \E r \in Roles :
       \E c, x \in InSeq(r) \cap DevCallers :
          /\ c \in HadAtCall(x)
          /\ CalledBefore(c, x)
          /\ d_pc[x] = "returned"

\* C26: a caller holds the lock only for the append: it makes no call to a
\* node while holding the lock, and a caller that is starting a node, probing
\* an endpoint, deploying contracts or waiting for a receipt does not hold the
\* lock.
C26_LockOnlyForAppend ==
    \A c \in DevCallers :
       /\ d_inlock[c] \subseteq {"append"}
       /\ d_pc[c] \in {"deploy", "l2start", "receipt", "pvstart", "lock"} => d_mu # c

\* the callers whose operation has ended, by a return or by a fatal failure
Ended == {c \in DevCallers : d_pc[c] \in {"returned", "fatal"}}

\* C29: a caller whose operation has ended does not hold the lock.
C29_EndsUnlocked == \A c \in Ended : d_mu # c

\* C30: every L2 engine a caller appended was started with the enode URL of
\* each engine in front of it in l2Engines among its boot-peers.
C30_KnowsEarlierEngines ==
    \A j \in 1..Len(d_seqs["l2Engines"]) :
       LET n == d_seqs["l2Engines"][j] IN
       n \in DevCallers =>
          \A i \in 1..(j - 1) :
             EnodeURL(d_seqs["l2Engines"][i]) \in Range(d_peers[n])

\* C28: GetL1ELNode(idx) and GetL2ELNode(idx) are fatal exactly when idx is
\* negative or not below the number of nodes appended so far, and what they
\* return is the node at index idx of the sequence: a node is seen by them
\* once its Add operation has appended it, and not before.
C28_GetSeesAppendedNodes ==
    [][\A c \in DevCallers :
          LET role == RoleOf(d_op'[c]) IN
          /\ (d_pc[c] = "start" /\ d_op'[c] \in Gets) =>
                (d_pc'[c] = "fatal" <=> OutOfRange(d_idx'[c], Len(d_seqs[role])))
          /\ (d_pc[c] = "read" /\ d_pc'[c] = "returned") =>
                /\ d_idx[c] < Len(d_seqs[role])
                /\ d_got'[c] = d_seqs[role][d_idx[c] + 1]]_vars

\* the adapted tests RunTests has run
Ran == {i \in 1..Len(a_adapted) : a_ran[i] # NotRun}

\* C31: the i-th adapted test has the Name built from tests[i], and when
\* RunTests runs it, it executes the Run of tests[i] over the transport the
\* prefix of tests[i].Name names.
C31_RunsItsOwnEntry ==
    /\ \A i \in 1..Len(a_adapted) :
          a_adapted[i].Name = Sprintf(a_tests[i].Name, "taiko-l2")
    /\ \A i \in Ran :
          /\ a_ran[i].body = a_tests[i].Run
          /\ a_ran[i].via = (IF Prefix(a_tests[i].Name) = Http THEN "RunHTTP" ELSE "RunWS")

\* the positions of a caller between v.mu.Lock() and the deferred Unlock of
\* GenerateKey, InsertKey, FindKey and nextNonce
InsideLock == {"gk_locked", "ik_locked", "fk_locked", "nn_locked"}

\* the callers whose CreateAccount is about to broadcast or is polling
OnNetwork == {t \in Callers : v_pc[t] \in {"send", "poll"}}

\* C32: the lock of the Vault is held only inside GenerateKey, InsertKey,
\* FindKey and nextNonce, never by a caller that is broadcasting or polling;
\* while a CreateAccount is doing either, every other caller that wants the
\* lock can take it, unless a third caller is inside one of those sections.
C32_NoLockAcrossNetwork ==
    /\ \A t \in Callers : v_mu = t => v_pc[t] \in InsideLock
    /\ \A t \in OnNetwork : v_mu # t
    /\ \A t \in OnNetwork :
          \A u \in Callers \ {t} :
             v_pc[u] \in {"start", "nonce"} =>
                \/ ENABLED (CreateAccount(u) \/ KeyCall(u))
                \/ v_mu \in Callers \ {t, u} /\ v_pc[v_mu] \in InsideLock

\* while one CreateAccount waits for its receipt, another caller holds the
\* lock inside nextNonce
C32_Witness ==
    \E t, u \in Callers :
       /\ v_pc[t] = "poll"
       /\ v_mu = u
       /\ v_pc[u] = "nn_locked"

\* C33: the funding transactions are submitted in the order of their nonces.
C33_BroadcastInNonceOrder ==
    \A i, j \in 1..Len(v_sent) : i < j => v_sent[i].nonce < v_sent[j].nonce

\* C33 as amended: a funding transaction that was submitted before another
\* one was built holds the lower nonce of the two, and a transaction is
\* submitted only after it was built.
C33_SentBeforeBuiltIsLower ==
    [][/\ Len(v_built') > Len(v_built) =>
             \A k \in 1..Len(v_sent) : v_sent[k].nonce < v_built'[Len(v_built')]
       /\ Len(v_sent') > Len(v_sent) =>
             \E k \in 1..Len(v_built) : v_built[k] = v_sent'[Len(v_sent')].nonce]_vars

\* the transaction of one caller was submitted, and another caller that got
\* a higher nonce is about to build its own
C33_Witness ==
    \E t, u \in Callers :
       /\ Broadcast(t, TRUE)
       /\ v_pc[u] = "nn_locked"
       /\ v_local[u] > v_tx[t]

====
